---- MODULE Spec2Model ----
(***************************************************************************)
(* PTCP (vertex/ptcp.py, vertex/tcpdfa.py): the protocol state machine,    *)
(* the connection engine and the multiplexer, as a state machine over two  *)
(* endpoints "A" (the active opener) and "B" (the listener).               *)
(*                                                                         *)
(* A byte of an application's stream is identified by its position in that *)
(* stream (1, 2, ...), so a string of stream bytes is a range              *)
(* [lo |-> first position, n |-> length]; slicing a string is slicing the  *)
(* range.  Everything else keeps the values of the source.                 *)
(*                                                                         *)
(* An exception is the field "raised" of the record a handler works on:    *)
(* once it is set the rest of the handler is skipped, up to the handler    *)
(* that catches it.  A loop that never ends sets "hung".                   *)
(***************************************************************************)
EXTENDS Integers, Sequences, FiniteSets, TLC

\* ------------------------------------------------------------ constants

\* the modulus of the wire sequence numbers: 2**32 in the source, 2**30 here
\* because TLC's integers end at 2**31 - 1
SeqSpace == 1073741824
MAX_PSEUDO_PORT == 65536
FixedSize == 23
DatagramSize == 512
RetransmitCount == 50
FirstConnID == 8
ListenPseudoPort == 1
StbPayloadLen == 2

\* ------------------------------------------------------------ bounds

\* datagrams in flight towards one endpoint: in the network that reorders,
\* and in the one that delivers in order
MaxNet == 2
MaxQueue == 4
\* application writes per run, and the sizes of a write
MaxWrites == 2
WriteSize == 5
\* firings of the retransmit timers per run (lossy network)
MaxRetransmits == 1
\* the same while connections are closed
MaxCloseWrites == 1
MaxCloseRetransmits == 1
\* the same over the network that delivers in order
MaxFifoWrites == 1
MaxFifoRetransmits == 1
\* duplications and truncations by the network per run
MaxDup == 1
MaxMuxRetransmits == 1
MaxForged == 1
\* calls on the multiplexer per run, connections open at a time
MaxMuxCalls == 5
MaxOpen == 2
MaxDamage == 2
MaxDamageWrites == 1
MaxDamageRetransmits == 1
\* SpecData
MaxDataWrites == 2
MaxDataRetransmits == 1
\* SpecStb
MaxStbWrites == 2
MaxStbRetransmits == 1
MaxStbCuts == 2
\* SpecLarge
MaxLargeRetransmits == 2
\* SpecLose
MaxLoseWrites == 2
MaxLoseRetransmits == 1
\* SpecProducer
MaxProducerWrites == 2
MaxProducerRetransmits == 1
\* SpecWrap
MaxWrapGap == 3
MaxWrapWrites == 2
MaxWrapRetransmits == 2
\* SpecRemove
MaxRemoveRetransmits == 52
\* SpecPause
MaxPauseWrites == 1
MaxPauseRetransmits == 1
MaxPauseDamage == 1
MaxTrunc == 1
\* the length the network cuts a payload to
TruncLen == 2

Endpoints == {"A", "B"}

\* the lengths the network of SpecStb cuts a payload to
CutLens == {0, TruncLen, WriteSize}

\* how many connections are made and closed in a row
ChurnSizes == {1, 2, MAX_PSEUDO_PORT - 2, MAX_PSEUDO_PORT - 1}
Peer(e) == IF e = "A" THEN "B" ELSE "A"

Min(a, b) == IF a < b THEN a ELSE b
Bit(b) == IF b THEN 1 ELSE 0

\* ------------------------------------------------------------ packets

NoData == [lo |-> 0, n |-> 0]

\* data[k:]
SliceFrom(data, k) ==
    IF k >= data.n THEN [lo |-> data.lo + data.n, n |-> 0]
    ELSE [lo |-> data.lo + k, n |-> data.n - k]

\* data[:k]
SliceTo(data, k) == [lo |-> data.lo, n |-> Min(k, data.n)]

\* crc32 of a payload: the checksum is modelled as the payload it was
\* computed from, so two payloads of the model never collide
crc32(data) == <<data.lo, data.n>>

\* PTCPPacket.create: dlen is len(data), the retransmit counter starts at 50.
\* u16 is the value packed into the two bytes of an STB payload.
create(sourcePseudoPort, destPseudoPort, seqNum, ackNum, data, u16, window, syn, ack, fin, rst, stb) ==
    [sourcePseudoPort |-> sourcePseudoPort, destPseudoPort |-> destPseudoPort,
     seqNum |-> seqNum, ackNum |-> ackNum, window |-> window,
     syn |-> syn, ack |-> ack, fin |-> fin, rst |-> rst, stb |-> stb,
     dlen |-> data.n, data |-> data, u16 |-> u16,
     checksum |-> crc32(data),
     retransmitCount |-> RetransmitCount]

relativeSequence(wireSequence, initialSequence, lapNumber) ==
    (wireSequence + (lapNumber * SeqSpace)) - initialSequence

segmentLength(p) == p.dlen + Bit(p.syn) + Bit(p.fin)

\* seqOffset, ackOffset, seqLaps and ackLaps keep their defaults of 0
relativeSeq(p) == relativeSequence(p.seqNum, 0, 0)
relativeAck(p) == relativeSequence(p.ackNum, 0, 0)

mustRetransmit(p) == p.syn \/ p.fin \/ p.dlen # 0

\* encode() then decode(): dlen and the checksum are rewritten from the data,
\* the receiver's object has a retransmit counter of its own.
Wire(p) == [p EXCEPT !.dlen = p.data.n, !.checksum = crc32(p.data), !.retransmitCount = RetransmitCount]

\* verifyChecksum
verifyChecksum(p) ==
    IF p.data.n # p.dlen
    THEN IF p.data.n > p.dlen THEN "Garbage" ELSE "Truncated"
    ELSE IF crc32(p.data) # p.checksum THEN "ChecksumMismatch"
    ELSE "ok"

\* iterchunks(data, chunksize) for chunksize > 0
RECURSIVE iterchunks(_, _)
iterchunks(data, chunksize) ==
    IF data.n = 0 THEN <<>>
    ELSE <<SliceTo(data, chunksize)>> \o iterchunks(SliceFrom(data, chunksize), chunksize)

\* a fragment() that gives every chunk the sequence number of the packet
RECURSIVE ChunkPacketsSameSeq(_, _, _)
ChunkPacketsSameSeq(p, chunks, seqOfft) ==
    IF chunks = <<>> THEN <<>>
    ELSE <<create(p.sourcePseudoPort, p.destPseudoPort, p.seqNum,
                  p.ackNum, Head(chunks), 0, p.window,
                  FALSE, p.ack, FALSE, FALSE, FALSE)>>
         \o ChunkPacketsSameSeq(p, Tail(chunks), seqOfft)

RECURSIVE ChunkPackets(_, _, _)
ChunkPackets(p, chunks, seqOfft) ==
    IF chunks = <<>> THEN <<>>
    ELSE <<create(p.sourcePseudoPort, p.destPseudoPort, p.seqNum + seqOfft,
                  p.ackNum, Head(chunks), 0, p.window,
                  FALSE, p.ack, FALSE, FALSE, FALSE)>>
         \o ChunkPackets(p, Tail(chunks), seqOfft + Head(chunks).n)

\* a fragment() that returns every packet as it is
fragmentWhole(p, mtu) == [raised |-> "", hung |-> FALSE, packets |-> <<p>>]

\* PTCPPacket.fragment: [raised, hung, packets]
fragment(p, mtu) ==
    IF p.dlen < mtu THEN [raised |-> "", hung |-> FALSE, packets |-> <<p>>]
    ELSE IF p.syn THEN [raised |-> "AssertionError", hung |-> FALSE, packets |-> <<>>]
    ELSE IF mtu = 0 /\ p.data.n > 0
         THEN [raised |-> "", hung |-> TRUE, packets |-> <<>>]
    ELSE LET mark(L) ==
                 IF p.fin
                 THEN IF L = <<>>
                      THEN [raised |-> "UnboundLocalError", hung |-> FALSE,
                            packets |-> <<>>]
                      ELSE [raised |-> "", hung |-> FALSE,
                            packets |-> [L EXCEPT ![Len(L)].fin = TRUE]]
                 ELSE [raised |-> "", hung |-> FALSE, packets |-> L]
         IN mark(ChunkPackets(p, iterchunks(p.data, mtu), 0))

segmentAcceptable(RCV_NXT, RCV_WND, SEG_SEQ, SEG_LEN) ==
    IF SEG_LEN = 0 /\ RCV_WND = 0 THEN SEG_SEQ = RCV_NXT
    ELSE IF SEG_LEN = 0 /\ RCV_WND > 0
         THEN (RCV_NXT <= SEG_SEQ) /\ (SEG_SEQ < RCV_NXT + RCV_WND)
    ELSE IF SEG_LEN > 0 /\ RCV_WND = 0 THEN FALSE
    ELSE ((RCV_NXT <= SEG_SEQ) /\ (SEG_SEQ < RCV_NXT + RCV_WND))
         \/ ((RCV_NXT <= SEG_SEQ + SEG_LEN - 1)
             /\ (SEG_SEQ + SEG_LEN - 1 < RCV_NXT + RCV_WND))

ackAcceptable(SND_UNA, SEG_ACK, SND_NXT) ==
    SND_UNA < SEG_ACK /\ SEG_ACK <= SND_NXT

\* ------------------------------------------------------------ the machine

States == {"closed", "synSent", "synRcvd", "listen", "established", "closeWait",
           "lastAck", "finWait1", "finWait2", "closing", "timeWait"}

Inputs == {"appPassiveOpen", "appActiveOpen", "timeout", "appClose", "synAck",
           "ack", "rst", "appSendData", "syn", "fin", "segmentReceived"}

T(from, input, enter, outputs) ==
    [from |-> from, input |-> input, enter |-> enter, outputs |-> outputs]

\* the upon() calls of class TCP; "broken" is the state "closed"
Transitions == {
    T("closed", "appPassiveOpen", "listen", <<"appNotifyListen">>),
    T("closed", "appActiveOpen", "synSent", <<"sendSyn">>),
    T("synSent", "timeout", "closed", <<"appNotifyAttemptFailed", "releaseResources">>),
    T("synSent", "appClose", "closed", <<"appNotifyAttemptFailed", "releaseResources">>),
    T("synSent", "synAck", "established", <<"sendAck", "appNotifyConnected">>),
    T("synRcvd", "ack", "established", <<"appNotifyConnected">>),
    T("synRcvd", "appClose", "finWait1", <<"sendFin">>),
    T("synRcvd", "timeout", "closed", <<"sendRst", "releaseResources">>),
    T("synRcvd", "rst", "closed", <<"releaseResources">>),
    T("listen", "appSendData", "synSent", <<"sendSyn">>),
    T("listen", "syn", "synRcvd", <<"sendSynAck">>),
    T("established", "segmentReceived", "established", <<"sendAck">>),
    T("established", "appClose", "finWait1", <<"appNotifyDisconnected", "sendFin">>),
    T("established", "fin", "closeWait", <<"appNotifyHalfClose", "sendAck">>),
    T("established", "timeout", "closed", <<"appNotifyDisconnected", "releaseResources">>),
    T("closeWait", "appClose", "lastAck", <<"sendFin", "appNotifyDisconnected">>),
    T("closeWait", "timeout", "closed", <<"appNotifyDisconnected", "releaseResources">>),
    T("lastAck", "ack", "closed", <<"releaseResources">>),
    T("lastAck", "timeout", "closed", <<"releaseResources">>),
    T("finWait1", "ack", "finWait2", <<>>),
    T("finWait1", "fin", "closing", <<"sendAck">>),
    T("finWait1", "timeout", "closed", <<"releaseResources">>),
    T("finWait2", "timeout", "closed", <<"releaseResources">>),
    T("finWait2", "fin", "timeWait", <<"sendAck", "startTimeWaiting">>),
    T("closing", "timeout", "closed", <<"releaseResources">>),
    T("closing", "ack", "timeWait", <<"startTimeWaiting">>),
    T("timeWait", "timeout", "closed", <<"releaseResources">>),
    T("finWait1", "segmentReceived", "finWait1", <<>>),
    T("finWait2", "segmentReceived", "finWait2", <<>>),
    T("closing", "segmentReceived", "closing", <<>>) }

Listed(state, input) == \E t \in Transitions : t.from = state /\ t.input = input

\* a table whose rows run their outputs in the opposite order
uponReversed(state, input) ==
    LET t == CHOOSE t \in Transitions : t.from = state /\ t.input = input
    IN [t EXCEPT !.outputs = [i \in 1..Len(@) |-> @[Len(@) + 1 - i]]]

\* the transition a MethodicalMachine input takes in a state
upon(state, input) == CHOOSE t \in Transitions : t.from = state /\ t.input = input

\* ------------------------------------------------------------ a connection

\* PTCPConnection.__init__ and the class attributes, with the fields of the
\* multiplexer (PTCP) that owns it and what the application has been told
NewEndpoint(muxFactory) ==
    [created |-> FALSE, inMap |-> FALSE,
     hostPseudoPort |-> 0, peerPseudoPort |-> 0,
     state |-> "closed",
     retransmissionQueue |-> <<>>,
     oldestUnackedSendSeqNum |-> 0, nextSendSeqNum |-> 0, hostSendISN |-> 0,
     nextRecvSeqNum |-> 0, peerSendISN |-> 0, setPeerISN |-> FALSE,
     mtu |-> DatagramSize - FixedSize,
     recvWindow |-> DatagramSize - FixedSize,
     sendWindowRemaining |-> (DatagramSize - FixedSize) * 2,
     outgoingBytes |-> [lo |-> 1, n |-> 0],
     nagle |-> FALSE, retransmitter |-> FALSE, ackTimer |-> FALSE,
     timeWaitCall |-> FALSE, closeWaitLoseConnection |-> FALSE,
     protocol |-> FALSE, disconnecting |-> FALSE, disconnected |-> FALSE,
     producer |-> FALSE, streamingProducer |-> FALSE, producerPaused |-> FALSE,
     paused |-> FALSE, wasEverListen |-> FALSE,
     \* PTCP
     muxFactory |-> muxFactory, transportGoneAway |-> FALSE, stopped |-> FALSE,
     allConnectionsClosed |-> 0,
     \* the application's view
     delivered |-> <<>>, makeConnection |-> 0, connectionLost |-> 0,
     clientConnectionFailed |-> 0,
     \* the handler in progress
     raised |-> "", returned |-> FALSE, caught |-> "", ran |-> <<>>,
     out |-> <<>>, hung |-> FALSE, escaped |-> "",
     \* history: the output releaseResources has run
     released |-> FALSE,
     \* what the application does inside makeConnection and connectionLost
     onMake |-> "nothing", onLost |-> "nothing",
     \* the inputs of the machine whose outputs are running, and history: an
     \* input was dispatched while the outputs of another were running
     dispatching |-> 0, reentered |-> FALSE,
     \* the calls the handler in progress has made on the producer
     told |-> <<>>,
     \* the object the machine drives: the connection, or a recorder
     impl |-> "connection"]

Running(c) == c.raised = "" /\ ~c.hung
Raise(c, error) == [c EXCEPT !.raised = error]

currentAckNum(c) == (c.nextRecvSeqNum + c.peerSendISN) % SeqSpace

\* PTCP.sendPacket: the datagram goes to the peer's address
sendPacket(c, p) ==
    IF c.transportGoneAway THEN c ELSE [c EXCEPT !.out = Append(@, Wire(p))]

\* PTCP._stop
stop(c) == [c EXCEPT !.stopped = TRUE]

\* PTCP.connectionClosed
connectionClosed(c) ==
    IF ~c.inMap THEN Raise(c, "KeyError")
    ELSE LET c1 == [c EXCEPT !.inMap = FALSE]
             c2 == IF ~c1.transportGoneAway /\ ~c1.muxFactory THEN stop(c1) ELSE c1
         IN [c2 EXCEPT !.allConnectionsClosed = @ + 1]

_stopRetransmitting(c) ==
    [c EXCEPT !.retransmitter = FALSE, !.nagle = FALSE,
              !.closeWaitLoseConnection = FALSE]

releaseConnectionResources(c) ==
    LET cancel(c1) ==
            IF ~Running(c1) THEN c1
            ELSE [_stopRetransmitting(c1) EXCEPT !.timeWaitCall = FALSE,
                                                 !.ackTimer = FALSE]
    IN cancel(connectionClosed(c))

scheduleTimeWaitTimeout(c) == [_stopRetransmitting(c) EXCEPT !.timeWaitCall = TRUE]

\* a _writeBufferFull that never pauses the producer
_writeBufferFullSilent(c) == c

_writeBufferFull(c) ==
    IF c.producer /\ ~c.producerPaused
    THEN [c EXCEPT !.producerPaused = TRUE, !.told = Append(@, "pauseProducing")]
    ELSE c

originate(c, data, syn, ack, fin, rst) ==
    LET full(c3) == IF c3.sendWindowRemaining = 0 THEN _writeBufferFull(c3) ELSE c3
        send(c2, p) ==
            IF mustRetransmit(p)
            THEN IF c2.retransmissionQueue # <<>>
                    /\ c2.retransmissionQueue[Len(c2.retransmissionQueue)].fin
                 THEN Raise(c2, "AssertionError")
                 ELSE sendPacket(full([c2 EXCEPT !.retransmissionQueue = Append(@, p),
                                                 !.retransmitter = TRUE]), p)
            ELSE sendPacket(c2, p)
        advance(c1, p) == send([c1 EXCEPT !.nextSendSeqNum = @ + segmentLength(p)], p)
        begin(c1) ==
            IF syn /\ (c1.nextSendSeqNum # 0 \/ c1.hostSendISN # 0)
            THEN Raise(c1, "AssertionError")
            ELSE advance(c1, create(c1.hostPseudoPort, c1.peerPseudoPort,
                                    (c1.nextSendSeqNum + c1.hostSendISN) % SeqSpace,
                                    currentAckNum(c1), data, 0, c1.recvWindow,
                                    syn, ack, fin, rst, FALSE))
    IN begin([c EXCEPT !.ackTimer = FALSE])

RECURSIVE Feed(_, _)

\* an _originateOneData that sends all the window allows in one segment
_originateOneWindow(c) ==
    LET sendOut == SliceTo(c.outgoingBytes, c.sendWindowRemaining)
    IN originate([c EXCEPT !.outgoingBytes = SliceFrom(@, c.sendWindowRemaining),
                           !.sendWindowRemaining = @ - sendOut.n],
                 sendOut, FALSE, TRUE, FALSE, FALSE)

_originateOneData(c) ==
    LET amount == Min(c.sendWindowRemaining, c.mtu)
        sendOut == SliceTo(c.outgoingBytes, amount)
    IN originate([c EXCEPT !.outgoingBytes = SliceFrom(@, amount),
                           !.sendWindowRemaining = @ - sendOut.n],
                 sendOut, FALSE, TRUE, FALSE, FALSE)

\* the while loop of _reallyWrite; with an mtu of 0 it never ends
RECURSIVE WriteLoop(_)
WriteLoop(c) ==
    IF ~Running(c) THEN c
    ELSE IF c.sendWindowRemaining # 0 /\ c.outgoingBytes.n # 0
    THEN IF Min(c.sendWindowRemaining, c.mtu) = 0
         THEN [c EXCEPT !.hung = TRUE]
         ELSE WriteLoop(_originateOneData(c))
    ELSE c

_reallyWrite(c) == WriteLoop([c EXCEPT !.nagle = FALSE])

_writeBufferEmpty(c) ==
    IF ~Running(c) THEN c
    ELSE IF c.outgoingBytes.n # 0 THEN _reallyWrite(c)
    ELSE IF c.producer
         THEN IF ~c.streamingProducer \/ c.producerPaused
              THEN [c EXCEPT !.producerPaused = FALSE,
                             !.told = Append(@, "resumeProducing")]
              ELSE c
    ELSE IF c.disconnecting /\ ~c.disconnected THEN Feed(c, "appClose")
    ELSE c

\* a loseConnection that closes whatever is still to be sent
loseConnectionNow(c) ==
    IF ~c.disconnecting THEN Feed([c EXCEPT !.disconnecting = TRUE], "appClose")
    ELSE c

loseConnection(c) ==
    IF ~c.disconnecting
    THEN LET c1 == [c EXCEPT !.disconnecting = TRUE]
         IN IF c1.outgoingBytes.n = 0 THEN _writeBufferEmpty(c1) ELSE c1
    ELSE c

\* the producer registers and stays registered; one that is not streaming
\* is asked for data at once
registerProducer(c, streaming) ==
    IF c.producer THEN Raise(c, "RuntimeError")
    ELSE IF c.disconnected THEN [c EXCEPT !.told = Append(@, "stopProducing")]
    ELSE LET c1 == [c EXCEPT !.producer = TRUE, !.streamingProducer = streaming]
         IN IF ~streaming /\ c1.outgoingBytes.n = 0
            THEN [c1 EXCEPT !.told = Append(@, "resumeProducing")]
            ELSE c1

write(c, n) ==
    IF c.disconnected THEN Raise(c, "AssertionError")
    ELSE [c EXCEPT !.outgoingBytes.n = @ + n, !.nagle = TRUE]

outgoingConnectionFailed(c) == [c EXCEPT !.clientConnectionFailed = @ + 1]

nowListeningSocket(c) == [c EXCEPT !.wasEverListen = TRUE]

\* what an application may do with the transport from inside a callback
AppReactions == {"nothing", "loseConnection", "write"}

React(c, how) ==
    CASE how = "loseConnection" -> loseConnection(c)
      [] how = "write" -> write(c, WriteSize)
      [] OTHER -> c

\* buildProtocol returns normally; makeConnection does what the application
\* does in it; self.protocol is assigned when it has returned, and an
\* exception it raises is logged and answered with loseConnection
connectionJustEstablished(c) ==
    LET done(c1) ==
            IF c1.hung THEN c1
            ELSE IF c1.raised # "" THEN loseConnection([c1 EXCEPT !.raised = ""])
            ELSE [c1 EXCEPT !.protocol = TRUE]
    IN IF c.disconnecting \/ c.disconnected THEN Raise(c, "AssertionError")
       ELSE done(React([c EXCEPT !.makeConnection = @ + 1], c.onMake))

\* connectionLost on a missing protocol raises inside the try and is logged,
\* as does whatever the application's connectionLost raises
connectionJustEnded(c) ==
    LET logged(c1) ==
            IF c1.hung THEN c1
            ELSE [c1 EXCEPT !.raised = "", !.protocol = FALSE, !.producer = FALSE]
        lost(c1) ==
            IF c.protocol THEN React([c1 EXCEPT !.connectionLost = @ + 1], c.onLost)
            ELSE c1
    IN IF c.disconnected THEN Raise(c, "AssertionError")
       ELSE logged(lost([c EXCEPT !.disconnected = TRUE]))

\* a nowHalfClosed that schedules nothing
nowHalfClosedNoTimer(c) == c

nowHalfClosed(c) == [c EXCEPT !.closeWaitLoseConnection = TRUE]

\* the outputs of class TCP, each a call of a method of the implementation
Call(c, name) ==
    CASE name = "sendSyn" -> originate(c, NoData, TRUE, FALSE, FALSE, FALSE)
      [] name = "sendFin" -> originate(c, NoData, FALSE, FALSE, TRUE, FALSE)
      [] name = "sendSynAck" -> originate(c, NoData, TRUE, TRUE, FALSE, FALSE)
      [] name = "sendAck" -> originate(c, NoData, FALSE, TRUE, FALSE, FALSE)
      [] name = "sendRst" -> originate(c, NoData, FALSE, FALSE, FALSE, TRUE)
      [] name = "appNotifyConnected" -> connectionJustEstablished(c)
      [] name = "appNotifyDisconnected" -> connectionJustEnded(c)
      [] name = "releaseResources" -> releaseConnectionResources(c)
      [] name = "startTimeWaiting" -> scheduleTimeWaitTimeout(c)
      [] name = "appNotifyListen" -> nowListeningSocket(c)
      [] name = "appNotifyHalfClose" -> nowHalfClosed(c)
      [] name = "appNotifyAttemptFailed" -> outgoingConnectionFailed(c)

Output(c, name) ==
    LET c1 == [c EXCEPT !.ran = Append(@, name),
                        !.released = @ \/ name = "releaseResources"]
    IN IF c.impl = "recorder" THEN c1 ELSE Call(c1, name)

RECURSIVE RunOutputs(_, _)
RunOutputs(c, outputs) ==
    IF outputs = <<>> \/ ~Running(c) THEN c
    ELSE RunOutputs(Output(c, Head(outputs)), Tail(outputs))

\* a machine that ignores the inputs a state has no transition for
FeedIgnoring(c, input) ==
    LET leave(c2) == [c2 EXCEPT !.dispatching = @ - 1]
        take(t) == leave(RunOutputs([c EXCEPT !.state = t.enter,
                                              !.dispatching = @ + 1,
                                              !.reentered = @ \/ c.dispatching > 0],
                                    t.outputs))
    IN IF ~Running(c) \/ ~Listed(c.state, input) THEN c
       ELSE take(upon(c.state, input))

\* calling an input method of the machine: the state changes, then the
\* outputs run in order; an input the state has no transition for raises
Feed(c, input) ==
    LET leave(c2) == [c2 EXCEPT !.dispatching = @ - 1]
        take(t) == leave(RunOutputs([c EXCEPT !.state = t.enter,
                                              !.dispatching = @ + 1,
                                              !.reentered = @ \/ c.dispatching > 0],
                                    t.outputs))
    IN IF ~Running(c) THEN c
       ELSE IF ~Listed(c.state, input) THEN Raise(c, "NoTransition")
       ELSE take(upon(c.state, input))

\* TCP.maybeReceiveAck is called by packetReceived and defined nowhere in
\* tcpdfa.py; this is the behaviour the specification gives it: synAck when
\* the acceptable ack arrives in SynSent, else ack, which a state that does
\* not consume it ignores.
maybeReceiveAck(c, packet) ==
    IF c.state = "synSent" \/ Listed(c.state, "ack")
    THEN Feed(c, IF c.state = "synSent" THEN "synAck" ELSE "ack")
    ELSE c

\* the for loop of _reallyRetransmit, from the i-th queued packet on
RECURSIVE RetransmitLoop(_, _)
RetransmitLoop(c, i) ==
    IF ~Running(c) THEN c
    ELSE IF i > Len(c.retransmissionQueue) THEN [c EXCEPT !.retransmitter = TRUE]
    ELSE LET count == c.retransmissionQueue[i].retransmitCount - 1
             c1 == [c EXCEPT !.retransmissionQueue[i].retransmitCount = count]
         IN IF count # 0
            THEN LET c2 == [c1 EXCEPT !.retransmissionQueue[i].ackNum = currentAckNum(c1)]
                 IN RetransmitLoop(sendPacket(c2, c2.retransmissionQueue[i]), i + 1)
            ELSE Feed(c1, "timeout")

\* a _reallyRetransmit that re-arms the timer whatever the loop did
_reallyRetransmitRearm(c) ==
    LET c1 == [c EXCEPT !.retransmitter = FALSE]
    IN IF c1.retransmissionQueue # <<>>
       THEN [RetransmitLoop(c1, 1) EXCEPT !.retransmitter = TRUE] ELSE c1

_reallyRetransmit(c) ==
    LET c1 == [c EXCEPT !.retransmitter = FALSE]
    IN IF c1.retransmissionQueue # <<>> THEN RetransmitLoop(c1, 1) ELSE c1

originateAck(c) ==
    originate([c EXCEPT !.ackTimer = FALSE], NoData, FALSE, TRUE, FALSE, FALSE)

ackSoon(c) == [c EXCEPT !.ackTimer = TRUE]

pauseProducing(c) == [c EXCEPT !.paused = TRUE]

resumeProducing(c) == [c EXCEPT !.paused = FALSE]

_do2mslTimeout(c) == Feed([c EXCEPT !.timeWaitCall = FALSE], "timeout")

appCloseNow(c) == loseConnection([c EXCEPT !.closeWaitLoseConnection = FALSE])

\* ------------------------------------------------------------ inbound path

\* an application that is given nothing
dataDropped(c, usefulData) == c

\* protocol.dataReceived(usefulData): the bytes the application has been
\* given so far, as maximal runs of consecutive stream positions
dataReceived(c, usefulData) ==
    IF usefulData.n = 0 THEN c
    ELSE LET d == c.delivered IN
         IF d # <<>> /\ d[Len(d)].lo + d[Len(d)].n = usefulData.lo
         THEN [c EXCEPT !.delivered[Len(d)].n = @ + usefulData.n]
         ELSE [c EXCEPT !.delivered = Append(@, usefulData)]

RECURSIVE Refragment(_, _)
Refragment(queue, mtu) ==
    IF queue = <<>> THEN [raised |-> "", hung |-> FALSE, packets |-> <<>>]
    ELSE LET join(f, rest) ==
                 IF f.raised # "" \/ f.hung THEN f
                 ELSE IF rest.raised # "" \/ rest.hung THEN rest
                 ELSE [rest EXCEPT !.packets = f.packets \o @]
         IN join(fragment(Head(queue), mtu), Refragment(Tail(queue), mtu))

\* packetReceived, lines 375-382
stbReceived(c, packet) ==
    IF packet.data.n # StbPayloadLen THEN Raise(c, "struct.error")
    ELSE LET requeue(c1, rq) ==
                 IF rq.raised # "" THEN Raise(c1, rq.raised)
                 ELSE IF rq.hung THEN [c1 EXCEPT !.hung = TRUE]
                 ELSE [c1 EXCEPT !.retransmissionQueue = rq.packets]
         IN requeue([c EXCEPT !.mtu = packet.u16],
                    Refragment(c.retransmissionQueue, packet.u16))

Return(c) == [c EXCEPT !.returned = TRUE]
Going(c) == Running(c) /\ ~c.returned

\* a SYN that does not advance nextRecvSeqNum
synReceivedNoAdvance(c, packet) ==
    IF ~packet.syn THEN c
    ELSE IF segmentLength(packet) # 1 THEN Raise(c, "AssertionError")
    ELSE IF c.setPeerISN
         THEN IF c.peerSendISN # packet.seqNum THEN Raise(c, "BadPacketError")
              ELSE Return(c)
    ELSE LET c1 == [c EXCEPT !.setPeerISN = TRUE, !.peerSendISN = packet.seqNum]
         IN IF ~packet.ack THEN Feed(c1, "syn") ELSE c1

\* packetReceived, lines 395-420
synReceived(c, packet) ==
    IF ~packet.syn THEN c
    ELSE IF segmentLength(packet) # 1 THEN Raise(c, "AssertionError")
    ELSE IF c.setPeerISN
         THEN IF c.peerSendISN # packet.seqNum THEN Raise(c, "BadPacketError")
              ELSE Return(c)
    ELSE LET c1 == [c EXCEPT !.setPeerISN = TRUE, !.peerSendISN = packet.seqNum,
                             !.nextRecvSeqNum = @ + segmentLength(packet)]
         IN IF ~packet.ack THEN Feed(c1, "syn") ELSE c1

RECURSIVE DrainAcked(_, _)
DrainAcked(c, ack) ==
    LET rq == c.retransmissionQueue IN
    IF rq # <<>> /\ relativeSeq(rq[1]) + segmentLength(rq[1]) <= ack
    THEN DrainAcked([c EXCEPT !.sendWindowRemaining = @ + segmentLength(rq[1]),
                              !.retransmissionQueue = Tail(rq)], ack)
    ELSE c

\* an ACK handler that drains the queue and forgets oldestUnackedSendSeqNum
ackReceivedKeepsUna(c, packet) ==
    IF ~Going(c) THEN c
    ELSE IF packet.ack /\ ackAcceptable(c.oldestUnackedSendSeqNum,
                                        relativeAck(packet), c.nextSendSeqNum)
    THEN LET drained(c3) == IF Running(c3) /\ c3.retransmissionQueue = <<>>
                            THEN _writeBufferEmpty(c3) ELSE c3
         IN drained(maybeReceiveAck(DrainAcked(c, relativeAck(packet)), packet))
    ELSE c

\* packetReceived, lines 422-437
ackReceived(c, packet) ==
    IF ~Going(c) THEN c
    ELSE IF packet.ack /\ ackAcceptable(c.oldestUnackedSendSeqNum,
                                        relativeAck(packet), c.nextSendSeqNum)
    THEN LET drained(c3) == IF Running(c3) /\ c3.retransmissionQueue = <<>>
                            THEN _writeBufferEmpty(c3) ELSE c3
         IN drained(maybeReceiveAck(
                [DrainAcked(c, relativeAck(packet))
                    EXCEPT !.oldestUnackedSendSeqNum = relativeAck(packet)], packet))
    ELSE c

\* packetReceived, lines 469-487
dataAndFin(c, packet) ==
    LET usefulData == SliceFrom(packet.data, c.nextRecvSeqNum - relativeSeq(packet))
        give(m) == IF Running(m) /\ m.protocol THEN dataReceived(m, usefulData) ELSE m
        finish(c2) == IF packet.fin THEN Feed(c2, "fin")
                      ELSE IF segmentLength(packet) > 0 THEN ackSoon(c2)
                      ELSE c2
        advance(c1) ==
            IF ~Running(c1) THEN c1
            ELSE finish([c1 EXCEPT !.nextRecvSeqNum = @ + segmentLength(packet)])
    IN advance(IF packet.dlen # 0 THEN give(Feed(c, "segmentReceived")) ELSE c)

\* packetReceived, lines 443-487
segmentReceived(c, packet) ==
    IF ~Going(c) THEN c
    ELSE IF segmentLength(packet) = 0
         THEN IF packet.ack THEN Return(c) ELSE Raise(c, "AssertionError")
    ELSE IF ~segmentAcceptable(c.nextRecvSeqNum, c.recvWindow,
                               relativeSeq(packet), segmentLength(packet))
         THEN Return(ackSoon(c))
    ELSE IF relativeSeq(packet) > c.nextRecvSeqNum THEN Return(c)
    ELSE dataAndFin(c, packet)

\* a packetReceived that does not look at _paused
packetReceivedPaused(c, packet) ==
    IF packet.stb THEN stbReceived(c, packet)
    ELSE IF packet.syn /\ packet.dlen # 0 THEN Raise(c, "BadPacketError")
    ELSE segmentReceived(ackReceived(synReceived(c, packet), packet), packet)

\* PTCPConnection.packetReceived
packetReceived(c, packet) ==
    IF packet.stb THEN stbReceived(c, packet)
    ELSE IF c.paused THEN c
    ELSE IF packet.syn /\ packet.dlen # 0 THEN Raise(c, "BadPacketError")
    ELSE segmentReceived(ackReceived(synReceived(c, packet), packet), packet)

\* ------------------------------------------------------------ multiplexer

\* a multiplexer that accepts every packet with SYN set
SynSet(packet) == packet.syn

\* packet.flags == _SYN
OnlySyn(packet) ==
    packet.syn /\ ~packet.ack /\ ~packet.fin /\ ~packet.rst /\ ~packet.stb

\* packey in self._connections
Known(c, packet) ==
    /\ c.inMap
    /\ packet.sourcePseudoPort = c.peerPseudoPort
    /\ packet.destPseudoPort = c.hostPseudoPort

\* the try/except of PTCP.packetReceived around the connection's handler
deliver(c, packet) ==
    LET except(r) ==
            IF r.raised = "" THEN r
            ELSE IF r.inMap
                 THEN [r EXCEPT !.inMap = FALSE, !.raised = "", !.caught = r.raised]
            ELSE [r EXCEPT !.raised = "KeyError", !.caught = r.raised]
    IN except(packetReceived(c, packet))

\* PTCP.packetReceived
muxPacketReceived(c, packet) ==
    LET conn == [c EXCEPT !.created = TRUE,
                          !.hostPseudoPort = packet.destPseudoPort,
                          !.peerPseudoPort = packet.sourcePseudoPort]
        listening == [Feed(conn, "appPassiveOpen") EXCEPT !.inMap = TRUE]
    IN IF ~Known(c, packet)
          /\ ~(OnlySyn(packet) /\ packet.destPseudoPort = ListenPseudoPort)
       THEN c
       ELSE deliver(IF Known(c, packet) THEN c ELSE listening, packet)

StbWindow == 32768

\* a datagramReceived that does not verify the checksum
datagramUnverified(c, packet) == muxPacketReceived(c, packet)

\* PTCP.datagramReceived, for a datagram of at least the header's size
datagramReceived(c, packet) ==
    LET v == verifyChecksum(packet) IN
    IF v = "Truncated"
    THEN sendPacket(c, create(packet.destPseudoPort, packet.sourcePseudoPort, 0, 0,
                              [lo |-> 0, n |-> StbPayloadLen], packet.data.n,
                              StbWindow, FALSE, FALSE, FALSE, FALSE, TRUE))
    ELSE IF v # "ok" THEN c
    ELSE muxPacketReceived(c, packet)

\* PTCP.datagramReceived for the first length bytes of the datagram that
\* encodes packet: less than a header is dropped before it is decoded
datagramBytesReceived(c, length, packet) ==
    IF length < FixedSize THEN c ELSE datagramReceived(c, packet)

\* PTCP.connect, the first call: genConnID() returns 8
connect(c) ==
    LET sourcePseudoPort == FirstConnID % MAX_PSEUDO_PORT
        conn == [c EXCEPT !.created = TRUE, !.inMap = TRUE,
                          !.hostPseudoPort = sourcePseudoPort,
                          !.peerPseudoPort = ListenPseudoPort]
    IN Feed(conn, "appActiveOpen")

\* PTCP._finalCleanup and cleanupAndClose
cleanupAndClose(c) ==
    LET close(c1) == IF Running(c1) THEN stop(c1) ELSE c1
    IN close(IF c.inMap THEN releaseConnectionResources(c) ELSE c)

\* ------------------------------------------------------------ the system

\* ep: the two endpoints; net: the datagrams in flight towards each endpoint
\* (a set when the network reorders, a queue when it delivers in order);
\* env: what the environment has done so far and may do (the bounds);
\* last: the event of the latest step
\* mux: the multiplexer's map when it holds many connections to one peer
\* address, and the counter genConnID draws from
VARIABLES ep, net, env, last, mux

vars == <<ep, net, env, last, mux>>

NoPacket ==
    create(0, 0, 0, 0, NoData, 0, 0, FALSE, FALSE, FALSE, FALSE, FALSE)

\* an event at endpoint e: the state of its machine before the event, the
\* datagram if it is one, the outputs the machine ran, the exception the
\* handler raised (caught by the multiplexer or not)
Event(kind, e, packet, c) ==
    [kind |-> kind, e |-> e, packet |-> packet, from |-> ep[e].state,
     ran |-> c.ran, told |-> c.told,
     error |-> IF c.caught # "" THEN c.caught ELSE c.raised]

NoEvent ==
    [kind |-> "none", e |-> "A", packet |-> NoPacket, from |-> "closed",
     ran |-> <<>>, told |-> <<>>, error |-> ""]

\* a handler has returned to the event loop: an exception it let through is
\* logged by the caller
Settle(c) ==
    [c EXCEPT !.out = <<>>, !.raised = "", !.returned = FALSE, !.caught = "",
              !.ran = <<>>, !.told = <<>>,
              !.escaped = IF c.raised # "" /\ @ = "" THEN c.raised ELSE @]

\* a network that reorders takes the datagrams it has room for and drops
\* the others
RECURSIVE Put(_, _)
Put(inFlight, out) ==
    IF out = <<>> THEN inFlight
    ELSE IF Cardinality(inFlight \cup {Head(out)}) > MaxNet THEN Put(inFlight, Tail(out))
    ELSE Put(inFlight \cup {Head(out)}, Tail(out))

\* the handler of endpoint e ends with the record c; base is the network
\* without the datagram the handler consumed and env1 the environment after
\* the step.  The lossless network takes the step only when it has room for
\* what the handler sends.
Step(e, c, base, env1, kind, packet) ==
    /\ IF env.lossy THEN TRUE ELSE Len(base[Peer(e)]) + Len(c.out) <= MaxQueue
    /\ ep' = [ep EXCEPT ![e] = Settle(c)]
    /\ net' = [base EXCEPT ![Peer(e)] =
                  IF env.lossy THEN Put(@, c.out) ELSE @ \o c.out]
    /\ env' = [env1 EXCEPT !.sent[e] = IF env.counting THEN @ + Len(c.out) ELSE @]
    /\ last' = Event(kind, e, packet, c)
    /\ mux' = mux

Alive(e) == ep[e].created /\ ~ep[e].hung

\* a bare SYN for the listening port that finds a second connection object
\* at the endpoint is outside the model
Modelled(c, packet) ==
    ~(c.created /\ ~Known(c, packet) /\ verifyChecksum(packet) = "ok"
      /\ OnlySyn(packet) /\ packet.destPseudoPort = ListenPseudoPort)

Connect ==
    /\ ~ep["A"].created
    /\ Step("A", connect(ep["A"]), net, env, "connect", NoPacket)

Receive(e, packet, base, env1) ==
    /\ ~ep[e].hung
    /\ Modelled(ep[e], packet)
    /\ Step(e, datagramReceived(ep[e], packet), base, env1, "datagram", packet)

\* the network delivers any datagram in flight
ReceiveAny(e) ==
    \E packet \in net[e] :
        Receive(e, packet, [net EXCEPT ![e] = @ \ {packet}], env)

\* the network delivers a datagram and keeps a copy of it
ReceiveCopy(e) ==
    \E packet \in net[e] :
        /\ env.dups < env.maxDups
        /\ Receive(e, packet, net, [env EXCEPT !.dups = @ + 1])

\* the network delivers a datagram with its payload cut to k bytes, and
\* may keep a copy of the whole datagram
ReceiveTruncated(e, k) ==
    \E packet \in net[e], keep \in BOOLEAN :
        /\ env.truncs < env.maxTruncs
        /\ keep => env.dups < env.maxDups
        /\ k < packet.data.n
        /\ Receive(e, [packet EXCEPT !.data = SliceTo(@, k)],
                   IF keep THEN net ELSE [net EXCEPT ![e] = @ \ {packet}],
                   [env EXCEPT !.truncs = @ + 1,
                               !.dups = IF keep THEN @ + 1 ELSE @])

\* the network delivers the oldest datagram in flight
ReceiveHead(e) ==
    /\ net[e] # <<>>
    /\ Receive(e, Head(net[e]), [net EXCEPT ![e] = Tail(@)], env)

Lose(e) ==
    \E packet \in net[e] :
        /\ net' = [net EXCEPT ![e] = @ \ {packet}]
        /\ last' = NoEvent
        /\ UNCHANGED <<ep, env, mux>>

Write(e) ==
    /\ Alive(e) /\ ep[e].protocol
    /\ env.writes < env.maxWrites
    /\ Step(e, write(ep[e], WriteSize), net, [env EXCEPT !.writes = @ + 1],
            "write", NoPacket)

\* the application writes n bytes at once
WriteBytes(e, n) ==
    /\ Alive(e) /\ ep[e].protocol
    /\ env.writes < env.maxWrites
    /\ Step(e, write(ep[e], n), net, [env EXCEPT !.writes = @ + 1],
            "write", NoPacket)

LoseConnection(e) ==
    /\ Alive(e) /\ ep[e].protocol /\ ~ep[e].disconnecting
    /\ Step(e, loseConnection(ep[e]), net, env, "loseConnection", NoPacket)

\* the consumer is the protocol the connection was given to
PauseProducing(e) ==
    /\ Alive(e) /\ ep[e].protocol /\ ~ep[e].paused
    /\ Step(e, pauseProducing(ep[e]), net, env, "pauseProducing", NoPacket)

ResumeProducing(e) ==
    /\ Alive(e) /\ ep[e].paused
    /\ Step(e, resumeProducing(ep[e]), net, env, "resumeProducing", NoPacket)

RegisterProducer(e) ==
    /\ Alive(e) /\ ep[e].protocol /\ ~ep[e].producer
    /\ Step(e, registerProducer(ep[e], TRUE), net, env, "registerProducer", NoPacket)

\* a producer that has not been paused writes: a few bytes, what the send
\* window takes, or more than that
ProducerWrites(e) ==
    \E n \in {WriteSize, ep[e].sendWindowRemaining,
              ep[e].sendWindowRemaining + WriteSize} :
        /\ n > 0
        /\ ep[e].producer /\ ~ep[e].producerPaused
        /\ WriteBytes(e, n)

\* the application calls loseConnection once more
LoseConnectionAgain(e) ==
    /\ Alive(e) /\ ep[e].disconnecting
    /\ Step(e, loseConnection(ep[e]), net, env, "loseConnectionAgain", NoPacket)

CleanupAndClose(e) ==
    /\ Alive(e) /\ ~ep[e].stopped
    /\ Step(e, cleanupAndClose(ep[e]), net, env, "cleanupAndClose", NoPacket)

NagleFires(e) ==
    /\ Alive(e) /\ ep[e].nagle
    /\ Step(e, _reallyWrite(ep[e]), net, env, "nagle", NoPacket)

\* the bound counts the firings that find a segment to send again
RetransmitFires(e) ==
    /\ Alive(e) /\ ep[e].retransmitter
    /\ ep[e].retransmissionQueue # <<>> => env.retransmits < env.maxRetransmits
    /\ Step(e, _reallyRetransmit(ep[e]), net,
            [env EXCEPT !.retransmits =
                IF ep[e].retransmissionQueue = <<>> THEN @ ELSE @ + 1],
            "retransmit", NoPacket)

\* the retransmit timer fires, however often it has fired: a segment is sent
\* again retransmitCount times at most
RetransmitTimerFires(e) ==
    /\ Alive(e) /\ ep[e].retransmitter
    /\ Step(e, _reallyRetransmit(ep[e]), net, env, "retransmit", NoPacket)

AckTimerFires(e) ==
    /\ Alive(e) /\ ep[e].ackTimer
    /\ Step(e, originateAck(ep[e]), net, env, "ackTimer", NoPacket)

TimeWaitFires(e) ==
    /\ Alive(e) /\ ep[e].timeWaitCall
    /\ Step(e, _do2mslTimeout(ep[e]), net, env, "timeWait", NoPacket)

CloseWaitFires(e) ==
    /\ Alive(e) /\ ep[e].closeWaitLoseConnection
    /\ Step(e, appCloseNow(ep[e]), net, env, "closeWait", NoPacket)

\* genConnID = itertools.count(8).next and PTCP.startProtocol: connID is the
\* value the next call of genConnID returns, connections maps the source
\* pseudo-port of a key to the connection stored under it, open holds the
\* connections that were made and not closed; a connection is named by the
\* value genConnID returned for it
NewMux == [connID |-> FirstConnID, connections |-> <<>>, open |-> {}, calls |-> 0]

Bounds(maxWrites, maxRetransmits, maxDups, maxTruncs) ==
    [maxWrites |-> maxWrites, maxRetransmits |-> maxRetransmits,
     maxDups |-> maxDups, maxTruncs |-> maxTruncs]

InitEnv(lossy, counting, bounds) ==
    /\ net = [e \in Endpoints |-> IF lossy THEN {} ELSE <<>>]
    /\ env = [lossy |-> lossy, counting |-> counting,
              writes |-> 0, retransmits |-> 0, dups |-> 0, truncs |-> 0,
              sent |-> [e \in Endpoints |-> 0],
              maxWrites |-> bounds.maxWrites,
              maxRetransmits |-> bounds.maxRetransmits,
              maxDups |-> bounds.maxDups, maxTruncs |-> bounds.maxTruncs]
    /\ last = NoEvent
    /\ mux = NewMux

InitWith(lossy, counting, bounds) ==
    /\ ep \in [Endpoints -> {NewEndpoint(TRUE), NewEndpoint(FALSE),
                             [NewEndpoint(FALSE) EXCEPT !.impl = "recorder"]}]
    /\ ep["B"] = NewEndpoint(TRUE)
    /\ ep["A"].muxFactory = FALSE
    /\ InitEnv(lossy, counting, bounds)

\* ---- data transfer over a network that loses, duplicates, reorders and
\* ---- truncates datagrams

Init ==
    /\ InitWith(TRUE, FALSE, Bounds(MaxWrites, MaxRetransmits, MaxDup, MaxTrunc))
    /\ ep["A"].impl = "connection"

Next ==
    \/ Connect
    \/ \E e \in Endpoints : ReceiveAny(e)
    \/ \E e \in Endpoints : ReceiveCopy(e)
    \/ \E e \in Endpoints : Lose(e)
    \/ \E e \in Endpoints : ReceiveTruncated(e, TruncLen)
    \/ Write("A")
    \/ \E e \in Endpoints : NagleFires(e)
    \/ \E e \in Endpoints : RetransmitFires(e)
    \/ \E e \in Endpoints : AckTimerFires(e)

Spec == Init /\ [][Next]_vars

\* ---- opening and closing over the same network, without duplication

InitClose ==
    /\ InitWith(TRUE, FALSE, Bounds(MaxCloseWrites, MaxCloseRetransmits, 0, MaxTrunc))
    /\ ep["A"].impl = "connection"

NextClose ==
    \/ Connect
    \/ \E e \in Endpoints : ReceiveAny(e)
    \/ \E e \in Endpoints : Lose(e)
    \/ \E e \in Endpoints : ReceiveTruncated(e, TruncLen)
    \/ Write("A")
    \/ LoseConnection("A")
    \/ \E e \in Endpoints : CleanupAndClose(e)
    \/ \E e \in Endpoints : NagleFires(e)
    \/ \E e \in Endpoints : RetransmitFires(e)
    \/ \E e \in Endpoints : AckTimerFires(e)
    \/ \E e \in Endpoints : TimeWaitFires(e)
    \/ \E e \in Endpoints : CloseWaitFires(e)

SpecClose == InitClose /\ [][NextClose]_vars

\* ---- opening, writing and closing over a network that delivers every
\* ---- datagram once and in order

InitFifo ==
    /\ InitWith(FALSE, FALSE, Bounds(MaxFifoWrites, MaxFifoRetransmits, 0, 0))
    /\ ep["A"].impl = "connection"

NextFifo ==
    \/ Connect
    \/ \E e \in Endpoints : ReceiveHead(e)
    \/ Write("A")
    \/ \E e \in Endpoints : LoseConnection(e)
    \/ \E e \in Endpoints : NagleFires(e)
    \/ \E e \in Endpoints : RetransmitFires(e)
    \/ \E e \in Endpoints : AckTimerFires(e)
    \/ \E e \in Endpoints : TimeWaitFires(e)
    \/ \E e \in Endpoints : CloseWaitFires(e)

SpecFifo == InitFifo /\ [][NextFifo]_vars

\* ---- the machine of tcpdfa.py alone, driving an object that records the
\* ---- outputs it is called with

Input(i) ==
    Step("A", Feed(ep["A"], i), net, env, i, NoPacket)

InitDFA ==
    /\ InitWith(TRUE, FALSE, Bounds(0, 0, 0, 0))
    /\ ep["A"].impl = "recorder"

NextDFA == \E i \in Inputs : Input(i)

SpecDFA == InitDFA /\ [][NextDFA]_vars

\* ---- a network that delivers nothing to A: every retransmit counter runs out

InitTimeout ==
    /\ InitWith(TRUE, TRUE, Bounds(0, 2 * RetransmitCount, 0, 0))
    /\ ep["A"].impl = "connection"

NextTimeout ==
    \/ Connect
    \/ ReceiveAny("B")
    \/ \E e \in Endpoints : Lose(e)
    \/ \E e \in Endpoints : RetransmitFires(e)

SpecTimeout == InitTimeout /\ [][NextTimeout]_vars

\* ---- the multiplexer and datagrams from a peer it has no connection for

FlagSets == [syn : BOOLEAN, ack : BOOLEAN, fin : BOOLEAN, rst : BOOLEAN, stb : BOOLEAN]

\* datagrams of a peer that connected from another pseudo-port: every set of
\* flags, for the listening port and for the port of A's connection
Forged ==
    {Wire(create(FirstConnID + 1, dest, 0, 0, NoData, 0, StbWindow,
                 f.syn, f.ack, f.fin, f.rst, f.stb)) :
        f \in FlagSets, dest \in {ListenPseudoPort, FirstConnID}}

\* counted with the datagrams the network adds
ReceiveForged(e) ==
    \E packet \in Forged :
        /\ env.dups < env.maxDups
        /\ ~Known(ep[e], packet)
        /\ Receive(e, packet, net, [env EXCEPT !.dups = @ + 1])

InitMux ==
    /\ InitWith(TRUE, FALSE, Bounds(0, MaxMuxRetransmits, MaxForged, 0))
    /\ ep["A"].impl = "connection"

NextMux ==
    \/ Connect
    \/ \E e \in Endpoints : ReceiveAny(e)
    \/ ReceiveForged("B")
    \/ LoseConnection("A")
    \/ \E e \in Endpoints : RetransmitFires(e)
    \/ \E e \in Endpoints : AckTimerFires(e)
    \/ \E e \in Endpoints : TimeWaitFires(e)
    \/ \E e \in Endpoints : CloseWaitFires(e)

SpecMux == InitMux /\ [][NextMux]_vars

\* ---- datagrams damaged on the way, over the network that delivers in order

Damage == {"short", "garbage", "checksum", "truncated", "emptied"}

\* what is left of a datagram: bytes added after the payload, a checksum
\* field that is the CRC of no payload, a payload cut to TruncLen or to 0
\* bytes; of a short one, less than a header
Damaged(packet, how) ==
    CASE how = "garbage" -> [packet EXCEPT !.data.n = @ + 1]
      [] how = "checksum" -> [packet EXCEPT !.checksum = <<0, -1>>]
      [] how = "truncated" -> [packet EXCEPT !.data = SliceTo(@, TruncLen)]
      [] how = "emptied" -> [packet EXCEPT !.data = SliceTo(@, 0)]
      [] how = "short" -> packet

DamagedLength(packet, how) ==
    IF how = "short" THEN FixedSize - 1 ELSE FixedSize + Damaged(packet, how).data.n

\* the network delivers its oldest datagram damaged
ReceiveDamaged(e) ==
    \E how \in Damage :
        /\ net[e] # <<>>
        /\ ~ep[e].hung
        /\ env.truncs < env.maxTruncs
        /\ how = "truncated" => Head(net[e]).data.n > TruncLen
        /\ how = "emptied" => Head(net[e]).data.n > 0
        /\ Step(e, datagramBytesReceived(ep[e], DamagedLength(Head(net[e]), how),
                                         Damaged(Head(net[e]), how)),
                [net EXCEPT ![e] = Tail(@)], [env EXCEPT !.truncs = @ + 1],
                how, Damaged(Head(net[e]), how))

InitDamage ==
    /\ InitWith(FALSE, TRUE, Bounds(MaxDamageWrites, MaxDamageRetransmits, 0, MaxDamage))
    /\ ep["A"].impl = "connection"

NextDamage ==
    \/ Connect
    \/ \E e \in Endpoints : ReceiveHead(e)
    \/ \E e \in Endpoints : ReceiveDamaged(e)
    \/ Write("A")
    \/ \E e \in Endpoints : NagleFires(e)
    \/ \E e \in Endpoints : RetransmitFires(e)
    \/ \E e \in Endpoints : AckTimerFires(e)

SpecDamage == InitDamage /\ [][NextDamage]_vars

\* ---- two writes and a close over the network that delivers in order

InitData ==
    /\ InitWith(FALSE, FALSE, Bounds(MaxDataWrites, MaxDataRetransmits, 0, 0))
    /\ ep["A"].impl = "connection"

SpecData == InitData /\ [][NextFifo]_vars

\* ---- STB advisories for payloads cut to several lengths, over the network
\* ---- that delivers in order

\* the network delivers its oldest datagram with the payload cut to k bytes
ReceiveCut(e) ==
    \E k \in CutLens :
        /\ net[e] # <<>>
        /\ env.truncs < env.maxTruncs
        /\ k < Head(net[e]).data.n
        /\ Receive(e, [Head(net[e]) EXCEPT !.data = SliceTo(@, k)],
                   [net EXCEPT ![e] = Tail(@)], [env EXCEPT !.truncs = @ + 1])

InitStb ==
    /\ InitWith(FALSE, FALSE, Bounds(MaxStbWrites, MaxStbRetransmits, 0, MaxStbCuts))
    /\ ep["A"].impl = "connection"

NextStb ==
    \/ Connect
    \/ \E e \in Endpoints : ReceiveHead(e)
    \/ ReceiveCut("B")
    \/ Write("A")
    \/ LoseConnection("A")
    \/ \E e \in Endpoints : NagleFires(e)
    \/ \E e \in Endpoints : RetransmitFires(e)
    \/ \E e \in Endpoints : AckTimerFires(e)

SpecStb == InitStb /\ [][NextStb]_vars

\* ---- one write of 1000 bytes over the network that delivers
\* ---- in order

InitLarge ==
    /\ InitWith(FALSE, FALSE, Bounds(1, MaxLargeRetransmits, 0, 0))
    /\ ep["A"].impl = "connection"

NextLarge ==
    \/ Connect
    \/ \E e \in Endpoints : ReceiveHead(e)
    \/ WriteBytes("A", 1000)
    \/ \E e \in Endpoints : NagleFires(e)
    \/ \E e \in Endpoints : RetransmitFires(e)
    \/ \E e \in Endpoints : AckTimerFires(e)

SpecLarge == InitLarge /\ [][NextLarge]_vars

\* ---- closing with output pending: a write the window does not take at
\* ---- once and a short one, over the network that delivers in order

InitLose ==
    /\ InitWith(FALSE, FALSE, Bounds(MaxLoseWrites, MaxLoseRetransmits, 0, 0))
    /\ ep["A"].impl = "connection"

NextLose ==
    \/ Connect
    \/ \E e \in Endpoints : ReceiveHead(e)
    \/ \E n \in {WriteSize, 2 * DatagramSize} : WriteBytes("A", n)
    \/ LoseConnection("A")
    \/ LoseConnectionAgain("A")
    \/ \E e \in Endpoints : NagleFires(e)
    \/ \E e \in Endpoints : RetransmitFires(e)
    \/ \E e \in Endpoints : AckTimerFires(e)
    \/ \E e \in Endpoints : CloseWaitFires(e)

SpecLose == InitLose /\ [][NextLose]_vars

\* ---- a streaming producer, over the network that delivers in order

InitProducer ==
    /\ InitWith(FALSE, FALSE, Bounds(MaxProducerWrites, MaxProducerRetransmits, 0, 0))
    /\ ep["A"].impl = "connection"

NextProducer ==
    \/ Connect
    \/ \E e \in Endpoints : ReceiveHead(e)
    \/ RegisterProducer("A")
    \/ ProducerWrites("A")
    \/ \E e \in Endpoints : NagleFires(e)
    \/ \E e \in Endpoints : RetransmitFires(e)
    \/ \E e \in Endpoints : AckTimerFires(e)

SpecProducer == InitProducer /\ [][NextProducer]_vars

\* ---- a connection that has sent almost a whole lap of sequence numbers

\* the connection of an endpoint after the handshake, when it has sent the
\* bytes 1..sent and been given the bytes 1..received, all acknowledged
Transferred(listening, sent, received) ==
    [NewEndpoint(listening) EXCEPT
        !.created = TRUE, !.inMap = TRUE, !.state = "established",
        !.hostPseudoPort = IF listening THEN ListenPseudoPort ELSE FirstConnID,
        !.peerPseudoPort = IF listening THEN FirstConnID ELSE ListenPseudoPort,
        !.oldestUnackedSendSeqNum = sent + 1, !.nextSendSeqNum = sent + 1,
        !.nextRecvSeqNum = received + 1, !.setPeerISN = TRUE,
        !.sendWindowRemaining = @ + 1,
        !.outgoingBytes = [lo |-> sent + 1, n |-> 0],
        !.retransmitter = TRUE, !.protocol = TRUE, !.wasEverListen = listening,
        !.delivered = IF received = 0 THEN <<>> ELSE <<[lo |-> 1, n |-> received]>>,
        !.makeConnection = 1]

InitWrap ==
    /\ \E gap \in 1..MaxWrapGap :
          ep = [e \in Endpoints |->
                  IF e = "A" THEN Transferred(FALSE, SeqSpace - gap - 1, 0)
                  ELSE Transferred(TRUE, 0, SeqSpace - gap - 1)]
    /\ net = [e \in Endpoints |-> <<>>]
    /\ env = [lossy |-> FALSE, counting |-> FALSE,
              writes |-> 0, retransmits |-> 0, dups |-> 0, truncs |-> 0,
              sent |-> [e \in Endpoints |-> 0],
              maxWrites |-> MaxWrapWrites, maxRetransmits |-> MaxWrapRetransmits,
              maxDups |-> 0, maxTruncs |-> 0]
    /\ last = NoEvent
    /\ mux = [NewMux EXCEPT !.connID = FirstConnID + 1]

NextWrap ==
    \/ \E e \in Endpoints : ReceiveHead(e)
    \/ Write("A")
    \/ \E e \in Endpoints : NagleFires(e)
    \/ \E e \in Endpoints : RetransmitFires(e)
    \/ \E e \in Endpoints : AckTimerFires(e)

SpecWrap == InitWrap /\ [][NextWrap]_vars

\* ---- closing while the handshake is incomplete, until the retransmissions
\* ---- of the listening side run out; the connecting side's host is slow
\* ---- and its retransmit timer does not fire in the meantime

InitRemove ==
    /\ InitWith(TRUE, FALSE, Bounds(0, MaxRemoveRetransmits, 0, 0))
    /\ ep["A"].impl = "connection"

NextRemove ==
    \/ Connect
    \/ \E e \in Endpoints : ReceiveAny(e)
    \/ LoseConnection("A")
    \/ RetransmitFires("B")

SpecRemove == InitRemove /\ [][NextRemove]_vars

\* ---- a close whose timers fire fairly, with a peer that may stay silent:
\* ---- the delayed calls of the connecting side fire sooner or later, the
\* ---- network may hold a datagram for ever and the peer's half-close timer
\* ---- may never fire

InitLinger ==
    /\ InitWith(TRUE, FALSE, Bounds(0, 0, 0, 0))
    /\ ep["A"].impl = "connection"

NextLinger ==
    \/ Connect
    \/ \E e \in Endpoints : ReceiveAny(e)
    \/ LoseConnection("A")
    \/ RetransmitTimerFires("A")
    \/ \E e \in Endpoints : AckTimerFires(e)
    \/ TimeWaitFires("A")
    \/ CloseWaitFires("B")

SpecLinger ==
    /\ InitLinger /\ [][NextLinger]_vars
    /\ WF_vars(RetransmitTimerFires("A"))
    /\ WF_vars(AckTimerFires("A"))
    /\ WF_vars(TimeWaitFires("A"))

\* ---- consumers that pause and resume, over a network that delivers the
\* ---- datagrams in order, some of them damaged

InitPause ==
    /\ InitWith(FALSE, FALSE, Bounds(MaxPauseWrites, MaxPauseRetransmits, 0, MaxPauseDamage))
    /\ ep["A"].impl = "connection"

NextPause ==
    \/ Connect
    \/ \E e \in Endpoints : ReceiveHead(e)
    \/ \E e \in Endpoints : ReceiveDamaged(e)
    \/ Write("A")
    \/ LoseConnection("A")
    \/ \E e \in Endpoints : PauseProducing(e)
    \/ \E e \in Endpoints : ResumeProducing(e)
    \/ \E e \in Endpoints : NagleFires(e)
    \/ \E e \in Endpoints : RetransmitFires(e)
    \/ \E e \in Endpoints : AckTimerFires(e)
    \/ \E e \in Endpoints : CloseWaitFires(e)

SpecPause == InitPause /\ [][NextPause]_vars

\* ---- many connects to one peer address on one multiplexer

\* self._connections[key] = conn
Store(connections, port, conn) ==
    [q \in DOMAIN connections \cup {port} |->
        IF q = port THEN conn ELSE connections[q]]

\* del self._connections[key]
Delete(connections, port) == [q \in DOMAIN connections \ {port} |-> connections[q]]

\* the source pseudo-ports of k calls of connect in a row
PortsOf(connID, k) == {(connID + i) % MAX_PSEUDO_PORT : i \in 0..(k - 1)}

\* sourcePseudoPort = genConnID() % MAX_PSEUDO_PORT
SourcePort(connID) == connID % MAX_PSEUDO_PORT

\* PTCP.connect
MuxConnect ==
    /\ mux.calls < MaxMuxCalls
    /\ Cardinality(mux.open) < MaxOpen
    /\ mux' = [connID |-> mux.connID + 1,
               connections |-> Store(mux.connections, SourcePort(mux.connID),
                                     mux.connID),
               open |-> mux.open \cup {mux.connID},
               calls |-> mux.calls + 1]
    /\ UNCHANGED <<ep, net, env, last>>

\* PTCP.connectionClosed for an open connection: the entry under its key goes
MuxClose ==
    \E conn \in mux.open :
        /\ mux.calls < MaxMuxCalls
        /\ SourcePort(conn) \in DOMAIN mux.connections
        /\ mux' = [mux EXCEPT !.connections = Delete(@, SourcePort(conn)),
                              !.open = @ \ {conn},
                              !.calls = @ + 1]
        /\ UNCHANGED <<ep, net, env, last>>

\* k connections are made and closed again, one after the other: each is
\* stored under its key and the entry under that key is deleted
MuxChurn(k) ==
    /\ mux.calls < MaxMuxCalls
    /\ mux' = [mux EXCEPT !.connID = @ + k,
                          !.connections =
                              [q \in DOMAIN @ \ PortsOf(mux.connID, k) |-> @[q]],
                          !.calls = @ + 1]
    /\ UNCHANGED <<ep, net, env, last>>

InitConnect ==
    /\ InitWith(TRUE, FALSE, Bounds(0, 0, 0, 0))
    /\ ep["A"].impl = "connection"

NextConnect ==
    \/ MuxConnect
    \/ MuxClose
    \/ \E k \in ChurnSizes : MuxChurn(k)

SpecConnect == InitConnect /\ [][NextConnect]_vars

\* ---- applications that use the transport from inside makeConnection and
\* ---- connectionLost, over a network that delivers every datagram once and
\* ---- in order

Reacting(muxFactory) ==
    {[NewEndpoint(muxFactory) EXCEPT !.onMake = m, !.onLost = l] :
        m \in AppReactions, l \in AppReactions}

InitApp ==
    /\ ep \in [Endpoints -> Reacting(TRUE) \cup Reacting(FALSE)]
    /\ ep["B"].muxFactory
    /\ ~ep["A"].muxFactory
    /\ InitEnv(FALSE, FALSE, Bounds(0, 0, 0, 0))

NextApp ==
    \/ Connect
    \/ \E e \in Endpoints : ReceiveHead(e)
    \/ \E e \in Endpoints : LoseConnection(e)
    \/ \E e \in Endpoints : AckTimerFires(e)
    \/ \E e \in Endpoints : TimeWaitFires(e)
    \/ \E e \in Endpoints : CloseWaitFires(e)

SpecApp == InitApp /\ [][NextApp]_vars

\* ------------------------------------------------------------ properties

\* the bytes the application of endpoint e has written so far
Written(e) == ep[e].outgoingBytes.lo + ep[e].outgoingBytes.n - 1

\* C1: whatever the network loses, duplicates, reorders or truncates, the
\* bytes an application has been given are a prefix of the bytes its peer has
\* written: every byte once, in order, nothing skipped.
C1_DeliveredIsPrefix ==
    \A e \in Endpoints :
        \/ ep[e].delivered = <<>>
        \/ /\ Len(ep[e].delivered) = 1
           /\ ep[e].delivered[1].lo = 1
           /\ ep[e].delivered[1].n <= Written(Peer(e))

\* the newest datagram in flight towards e, in the network that delivers in
\* order
Newest(e) == net[e][Len(net[e])]

Datagram(e) == last.kind = "datagram" /\ last.e = e

HandshakeSteps ==
    /\ last.kind = "connect" =>
         /\ ep["A"].state = "synSent"
         /\ net["B"] # <<>> /\ OnlySyn(Newest("B"))
         /\ Newest("B").seqNum = ep["A"].hostSendISN
         /\ Newest("B").destPseudoPort = ListenPseudoPort
    /\ (Datagram("B") /\ OnlySyn(last.packet) /\ last.from = "closed") =>
         /\ ep["B"].state = "synRcvd"
         /\ last.ran = <<"appNotifyListen", "sendSynAck">>
         /\ net["A"] # <<>> /\ Newest("A").syn /\ Newest("A").ack
         /\ Newest("A").seqNum = ep["B"].hostSendISN
         /\ Newest("A").ackNum = last.packet.seqNum + 1
    /\ (Datagram("A") /\ last.packet.syn /\ last.packet.ack /\ last.from = "synSent") =>
         /\ ep["A"].state = "established"
         /\ last.ran = <<"sendAck", "appNotifyConnected">>
         /\ net["B"] # <<>> /\ ~Newest("B").syn /\ Newest("B").ack
         /\ Newest("B").dlen = 0 /\ ~Newest("B").fin
         /\ Newest("B").seqNum = ep["A"].hostSendISN + 1
         /\ Newest("B").ackNum = last.packet.seqNum + 1
         /\ ep["A"].makeConnection = 1
    /\ (Datagram("B") /\ last.packet.ack /\ last.from = "synRcvd") =>
         /\ ep["B"].state = "established"
         /\ last.ran = <<"appNotifyConnected">>
         /\ ep["B"].makeConnection = 1

\* the network that delivers in order can deliver its oldest datagram to e
CanReceive(e) ==
    /\ net[e] # <<>>
    /\ ~ep[e].hung
    /\ Modelled(ep[e], Head(net[e]))
    /\ Len(net[Peer(e)]) + Len(datagramReceived(ep[e], Head(net[e])).out) <= MaxQueue

Armed(c) ==
    c.retransmitter \/ c.nagle \/ c.ackTimer \/ c.timeWaitCall
        \/ c.closeWaitLoseConnection

\* A has connected, no datagram can be delivered and no delayed call is
\* armed: the run is over unless an application acts
AtRest ==
    /\ ep["A"].created
    /\ \A e \in Endpoints : ~CanReceive(e) /\ ~Armed(ep[e])

\* C2: over the network that delivers in order, connect sends SYN(ISN_A); B
\* creates a connection, enters SynRcvd and sends SYN+ACK(ISN_B, ISN_A+1); A
\* in SynSent is fed synAck, enters Established and sends ACK(ISN_A+1,
\* ISN_B+1); B is fed ack and enters Established, both connections then being
\* in their multiplexer's map; and no run comes to rest before both
\* applications have had makeConnection, once each.
C2_Handshake ==
    /\ HandshakeSteps
    /\ (Datagram("B") /\ last.packet.ack /\ last.from = "synRcvd") =>
           \A e \in Endpoints : ep[e].inMap /\ ep[e].makeConnection = 1
    /\ \A e \in Endpoints : ep[e].makeConnection <= 1
    /\ AtRest => \A e \in Endpoints : ep[e].makeConnection = 1

C2_Witness ==
    /\ \A e \in Endpoints :
        ep[e].state = "established" /\ ep[e].inMap /\ ep[e].makeConnection = 1
    /\ AtRest

\* the transition table of the specification, section 4.3
TransitionTable == {
    T("closed", "appPassiveOpen", "listen", <<"appNotifyListen">>),
    T("closed", "appActiveOpen", "synSent", <<"sendSyn">>),
    T("synSent", "synAck", "established", <<"sendAck", "appNotifyConnected">>),
    T("synSent", "timeout", "closed", <<"appNotifyAttemptFailed", "releaseResources">>),
    T("synSent", "appClose", "closed", <<"appNotifyAttemptFailed", "releaseResources">>),
    T("listen", "syn", "synRcvd", <<"sendSynAck">>),
    T("listen", "appSendData", "synSent", <<"sendSyn">>),
    T("synRcvd", "ack", "established", <<"appNotifyConnected">>),
    T("synRcvd", "appClose", "finWait1", <<"sendFin">>),
    T("synRcvd", "timeout", "closed", <<"sendRst", "releaseResources">>),
    T("synRcvd", "rst", "closed", <<"releaseResources">>),
    T("established", "segmentReceived", "established", <<"sendAck">>),
    T("established", "appClose", "finWait1", <<"appNotifyDisconnected", "sendFin">>),
    T("established", "fin", "closeWait", <<"appNotifyHalfClose", "sendAck">>),
    T("established", "timeout", "closed", <<"appNotifyDisconnected", "releaseResources">>),
    T("closeWait", "appClose", "lastAck", <<"sendFin", "appNotifyDisconnected">>),
    T("closeWait", "timeout", "closed", <<"appNotifyDisconnected", "releaseResources">>),
    T("lastAck", "ack", "closed", <<"releaseResources">>),
    T("lastAck", "timeout", "closed", <<"releaseResources">>),
    T("finWait1", "ack", "finWait2", <<>>),
    T("finWait1", "fin", "closing", <<"sendAck">>),
    T("finWait1", "timeout", "closed", <<"releaseResources">>),
    T("finWait2", "fin", "timeWait", <<"sendAck", "startTimeWaiting">>),
    T("finWait2", "timeout", "closed", <<"releaseResources">>),
    T("closing", "ack", "timeWait", <<"startTimeWaiting">>),
    T("closing", "timeout", "closed", <<"releaseResources">>),
    T("timeWait", "timeout", "closed", <<"releaseResources">>),
    T("finWait1", "segmentReceived", "finWait1", <<>>),
    T("finWait2", "segmentReceived", "finWait2", <<>>),
    T("closing", "segmentReceived", "closing", <<>>) }

\* C3: for every row of the transition table, the input fed in the row's
\* source state moves the machine to the row's target state and runs exactly
\* the row's outputs, in the row's order, each once.
C3_TransitionTable ==
    \A row \in TransitionTable :
        (last.kind = row.input /\ last.from = row.from) =>
            /\ ep["A"].state = row.enter
            /\ last.ran = row.outputs
            /\ last.error = ""

C3_Witness ==
    /\ last.kind = "appClose" /\ last.from = "closeWait"
    /\ ep["A"].state = "lastAck"
    /\ last.ran = <<"sendFin", "appNotifyDisconnected">>

\* C4: no datagram a peer sends makes the connection feed its machine an
\* input the machine's state has no transition for.
C4_PeerCannotFeedUnlisted ==
    last.kind = "datagram" => last.error # "NoTransition"

Unlisted == last.kind \in Inputs /\ ~Listed(last.from, last.kind)

\* C5 as stated: an input fed in a state that has no transition for it is
\* silently ignored: the state is unchanged, no output runs, no error is
\* raised.
C5_UnlistedIgnored ==
    Unlisted => ep["A"].state = last.from /\ last.ran = <<>> /\ last.error = ""

\* C5 amended: an input fed in a state that has no transition for it leaves
\* the state unchanged and runs no output, and the call raises NoTransition.
C5_UnlistedRaises ==
    Unlisted =>
        ep["A"].state = last.from /\ last.ran = <<>> /\ last.error = "NoTransition"

C5_Witness ==
    /\ last.kind = "syn" /\ last.from = "established"
    /\ ep["A"].state = "established" /\ last.error = "NoTransition"

\* an event of the close, seen from the state before it
CloseStep ==
    LET e == last'.e
        c == ep[e]
        d == ep'[e]
        sent == net'[Peer(e)]
    IN
    /\ (last'.kind = "loseConnection" /\ c.state = "established"
        /\ ~c.disconnecting /\ c.outgoingBytes.n = 0) =>
         /\ d.state = "finWait1"
         /\ last'.ran = <<"appNotifyDisconnected", "sendFin">>
         /\ sent # <<>> /\ sent[Len(sent)].fin
    /\ (last'.kind = "datagram" /\ last'.packet.fin /\ c.state = "established") =>
         /\ d.state = "closeWait"
         /\ last'.ran = <<"appNotifyHalfClose", "sendAck">>
         /\ d.closeWaitLoseConnection
         /\ sent # <<>> /\ sent[Len(sent)].ack /\ ~sent[Len(sent)].fin
         /\ sent[Len(sent)].ackNum = last'.packet.seqNum + 1
    /\ (last'.kind = "closeWait" /\ c.state = "closeWait"
        /\ ~c.disconnecting /\ c.outgoingBytes.n = 0) =>
         /\ d.state = "lastAck"
         /\ last'.ran = <<"sendFin", "appNotifyDisconnected">>
         /\ sent # <<>> /\ sent[Len(sent)].fin
    /\ (last'.kind = "datagram" /\ last'.packet.ack /\ c.state = "finWait1"
        /\ relativeAck(last'.packet) = c.nextSendSeqNum) =>
         d.state = "finWait2"
    /\ (last'.kind = "datagram" /\ last'.packet.fin /\ c.state = "finWait2") =>
         /\ d.state = "timeWait"
         /\ d.timeWaitCall
    /\ (last'.kind = "timeWait" /\ c.state = "timeWait") =>
         d.state = "closed" /\ ~d.inMap
    /\ (last'.kind = "datagram" /\ last'.packet.ack /\ c.state = "lastAck"
        /\ relativeAck(last'.packet) = c.nextSendSeqNum) =>
         d.state = "closed" /\ ~d.inMap

AllClosed ==
    \A e \in Endpoints :
        ep[e].state = "closed" /\ ep[e].connectionLost = 1 /\ ~ep[e].inMap

\* C6: over the network that delivers in order, loseConnection on an
\* Established connection with nothing left to send enters FinWait1 and sends
\* FIN; the peer on the FIN enters CloseWait, acknowledges and is told of the
\* half-close; its half-close timer closes it: LastAck and a FIN; the first
\* side goes through FinWait2 to TimeWait and, on the time-wait timer, to
\* Closed; the peer is Closed on the ACK of its FIN.  No run in which a side
\* has called loseConnection comes to rest before both connections are
\* Closed, both applications have had connectionLost exactly once and both
\* maps have lost the connection.
C6_ActiveClose ==
    /\ [][CloseStep]_vars
    /\ [](\A e \in Endpoints : ep[e].connectionLost <= 1)
    /\ []((AtRest /\ \E e \in Endpoints : ep[e].disconnecting) => AllClosed)

C6_Witness ==
    /\ AtRest /\ AllClosed
    /\ last.kind = "timeWait" /\ last.e = "A"
    /\ ep["A"].disconnecting /\ ep["B"].disconnecting

\* a firing of the retransmit timer of e, seen from the state before it
RetransmitStep(e) ==
    LET rq == ep[e].retransmissionQueue IN
    (last'.kind = "retransmit" /\ last'.e = e /\ rq # <<>>) =>
        IF rq[1].retransmitCount = 1
        THEN /\ last'.ran = upon(ep[e].state, "timeout").outputs
             /\ ep'[e].state = "closed"
             /\ \A packet \in net'[Peer(e)] \ net[Peer(e)] : packet.rst
             /\ ~Armed(ep'[e])
        ELSE /\ ep'[e].retransmissionQueue[1].retransmitCount
                    = rq[1].retransmitCount - 1
             /\ env'.sent[e] = env.sent[e] + Len(rq)
             /\ ep'[e].retransmitter

SynSentExhausted ==
    (ep["A"].created /\ ep["A"].state = "closed") =>
        /\ env.sent["A"] = RetransmitCount
        /\ ep["A"].clientConnectionFailed = 1
        /\ ~ep["A"].inMap
        /\ ~Armed(ep["A"])

\* C7: a queued segment that is never acknowledged has its counter, 50 at
\* first, decremented once by each firing of the retransmit timer; the firing
\* that brings it to zero does not resend it, feeds timeout to the machine
\* and does not re-arm the timer.  For a connection in SynSent: the SYN is
\* transmitted 50 times in all, the factory has clientConnectionFailed, the
\* connection leaves the map and none of its timers stays armed.
C7_RetransmitExhaustion ==
    /\ [](SynSentExhausted)
    /\ [][\A e \in Endpoints : RetransmitStep(e)]_vars

C7_Witness ==
    /\ ep["A"].created /\ ep["A"].state = "closed"
    /\ last.kind = "retransmit" /\ last.e = "A" /\ last.from = "synSent"
    /\ env.sent["A"] = RetransmitCount

\* C8: after every event a connection is in its multiplexer's map if and
\* only if its machine is not in the state Closed.
C8_InMapIffNotClosed ==
    \A e \in Endpoints :
        ep[e].created => (ep[e].inMap <=> ep[e].state # "closed")

\* the connection of e handles the datagram: it is in the map under the
\* datagram's ports, the checksum holds, and it is no STB advisory
Handles(e, packet) ==
    /\ Known(ep[e], packet)
    /\ verifyChecksum(packet) = "ok"
    /\ ~packet.stb

AckStep(e) ==
    LET c == ep[e]
        d == ep'[e]
        packet == last'.packet
    IN  /\ d.oldestUnackedSendSeqNum >= c.oldestUnackedSendSeqNum
        /\ (last'.kind = "datagram" /\ last'.e = e /\ Handles(e, packet)
            /\ packet.ack) =>
             IF c.oldestUnackedSendSeqNum < relativeAck(packet)
                    /\ relativeAck(packet) <= c.nextSendSeqNum
             THEN /\ d.oldestUnackedSendSeqNum = relativeAck(packet)
                  /\ \A i \in 1..Len(d.retransmissionQueue) :
                        relativeSeq(d.retransmissionQueue[i])
                            + segmentLength(d.retransmissionQueue[i])
                                > relativeAck(packet)
             ELSE /\ d.oldestUnackedSendSeqNum = c.oldestUnackedSendSeqNum
                  /\ d.retransmissionQueue = c.retransmissionQueue

\* C9: oldestUnackedSendSeqNum <= nextSendSeqNum in every state;
\* oldestUnackedSendSeqNum never decreases; once an acceptable ACK has been
\* handled it equals the ACK's relative number and no queued segment ends at
\* or before that number; an ACK at or below oldestUnackedSendSeqNum or above
\* nextSendSeqNum changes neither oldestUnackedSendSeqNum nor the queue.
C9_CumulativeAck ==
    /\ [](\A e \in Endpoints :
            ep[e].oldestUnackedSendSeqNum <= ep[e].nextSendSeqNum)
    /\ [][\A e \in Endpoints : AckStep(e)]_vars

C9_Witness ==
    /\ last.kind = "datagram" /\ last.e = "A" /\ last.packet.ack
    /\ relativeAck(last.packet) = WriteSize + 1
    /\ ep["A"].oldestUnackedSendSeqNum = WriteSize + 1
    /\ ep["A"].nextSendSeqNum > WriteSize + 1
    /\ Len(ep["A"].retransmissionQueue) > 0

C11_ReleasedNotArmed ==
    \A e \in Endpoints : ep[e].released => ~Armed(ep[e])

\* a datagram with a valid checksum and a key the map does not hold, seen
\* from the state before it
UnknownKeyStep ==
    LET e == last'.e
        packet == last'.packet
    IN (last'.kind = "datagram" /\ verifyChecksum(packet) = "ok"
        /\ ~Known(ep[e], packet)) =>
         IF packet.syn /\ ~packet.ack /\ ~packet.fin /\ ~packet.rst /\ ~packet.stb
                /\ packet.destPseudoPort = 1
         THEN /\ ep'[e].created /\ ep'[e].inMap
              /\ ep'[e].hostPseudoPort = packet.destPseudoPort
              /\ ep'[e].peerPseudoPort = packet.sourcePseudoPort
              /\ last'.ran = <<"appNotifyListen", "sendSynAck">>
              /\ ep'[e].state = "synRcvd"
         ELSE /\ ep'[e] = ep[e]
              /\ net'[Peer(e)] = net[Peer(e)]
              /\ last'.ran = <<>>

\* C12: a datagram with a valid checksum whose key is not in the map makes
\* the multiplexer create a connection, feed it appPassiveOpen and hand it
\* the packet exactly when the flags are SYN alone and the destination
\* pseudo-port is 1; in every other case the map and the connection the
\* multiplexer has are as before and nothing is sent.
C12_UnknownKey == [][UnknownKeyStep]_vars

C12_Witness ==
    /\ last.kind = "datagram" /\ last.e = "B"
    /\ last.packet.sourcePseudoPort = FirstConnID + 1
    /\ ep["B"].inMap /\ ep["B"].peerPseudoPort = FirstConnID + 1
    /\ ep["B"].state = "synRcvd"

\* a damaged datagram, seen from the state before it
DamagedStep ==
    LET e == last'.e
        packet == last'.packet
        truncated == last'.kind \in {"truncated", "emptied"}
        sent == net'[Peer(e)]
    IN last'.kind \in Damage =>
         /\ ep'[e] = ep[e]
         /\ last'.ran = <<>> /\ last'.error = ""
         /\ ~truncated => sent = net[Peer(e)] /\ env'.sent = env.sent
         /\ truncated =>
              /\ packet.data.n < packet.dlen
              /\ env'.sent[e] = env.sent[e] + 1
              /\ Len(sent) = Len(net[Peer(e)]) + 1
              /\ SubSeq(sent, 1, Len(sent) - 1) = net[Peer(e)]
              /\ sent[Len(sent)].stb /\ ~sent[Len(sent)].syn /\ ~sent[Len(sent)].ack
              /\ ~sent[Len(sent)].fin /\ ~sent[Len(sent)].rst
              /\ sent[Len(sent)].sourcePseudoPort = packet.destPseudoPort
              /\ sent[Len(sent)].destPseudoPort = packet.sourcePseudoPort
              /\ sent[Len(sent)].dlen = 2
              /\ sent[Len(sent)].u16 = packet.data.n

\* C13: a datagram shorter than a header, one whose payload is longer than
\* dlen, one whose CRC does not match and one whose payload is shorter than
\* dlen change neither the map nor the state of any connection; for the
\* last of these, and for it alone, one STB packet goes back to the sender,
\* the pseudo-ports swapped, its 2-byte payload the length of the payload
\* that arrived.
C13_DamagedDatagram == [][DamagedStep]_vars

C13_Witness ==
    /\ last.kind = "truncated" /\ last.e = "B" /\ ep["B"].state = "established"
    /\ net["A"] # <<>> /\ Newest("A").stb /\ Newest("A").u16 = TruncLen

\* C14: a connection whose application was told of its establishment and
\* that is no longer in the multiplexer's map has had connectionLost
\* delivered to that application; and no handler of a datagram or of a timer
\* has let an exception through to its caller.
C14_LostBeforeRemoval ==
    \A e \in Endpoints :
        /\ (ep[e].makeConnection > 0 /\ ~ep[e].inMap) => ep[e].connectionLost > 0
        /\ ep[e].escaped = ""

\* C15: connect never stores the connection it makes under a key the map
\* holds, however many calls of connect came before, the 2^16 that make the
\* counter come round included.
C15_FreshKey ==
    [][mux'.connID = mux.connID + 1 =>
          (mux.connID % MAX_PSEUDO_PORT) \notin DOMAIN mux.connections]_vars

\* the map of e loses its last entry
MapEmptied(e) ==
    (ep[e].inMap /\ ~ep'[e].inMap) =>
        /\ ep'[e].allConnectionsClosed = ep[e].allConnectionsClosed + 1
        /\ (~ep[e].muxFactory /\ ~ep[e].transportGoneAway) => ep'[e].stopped

\* C16: every time the map of a multiplexer goes from holding a connection
\* to holding none, by whichever path the entry is removed, the signal that
\* all connections are closed is fired, and a multiplexer without a factory
\* whose transport is live stops listening.
C16_AllClosedSignal == [][\A e \in Endpoints : MapEmptied(e)]_vars

\* C17: within one connection no input of the machine is dispatched while the
\* outputs of an earlier input are still running, whatever the application
\* does with the transport inside makeConnection and connectionLost
C17_InputsAtomic == \A e \in Endpoints : ~ep[e].reentered

PausedStep ==
    LET e == last'.e
        packet == last'.packet
    IN (last'.kind = "datagram" /\ ep[e].paused /\ Known(ep[e], packet)) =>
         IF packet.stb
         THEN last'.error = "" => ep'[e].mtu = packet.u16
         ELSE /\ ep'[e] = ep[e]
              /\ net'[Peer(e)] = net[Peer(e)]
              /\ last'.ran = <<>> /\ last'.error = ""

\* C18: a datagram without the STB flag that arrives for a connection whose
\* consumer has paused it changes nothing of the connection (cursors, queue,
\* send window, machine state, timers, what was delivered) and sends
\* nothing; one with the STB flag still sets the MTU.
C18_PausedDrops == [][PausedStep]_vars

C18_Witness ==
    /\ last.kind = "datagram" /\ last.e = "B" /\ ep["B"].paused
    /\ last.packet.dlen > 0 /\ ~last.packet.stb
    /\ ep["B"].state = "established" /\ ep["B"].delivered = <<>>

\* the number of bytes the application of a connection has been given
RECURSIVE Bytes(_)
Bytes(runs) == IF runs = <<>> THEN 0 ELSE Head(runs).n + Bytes(Tail(runs))

\* the datagrams endpoint e sends in the step
SentBy(e) ==
    SubSeq(net'[Peer(e)], Len(net[Peer(e)]) + 1, Len(net'[Peer(e)]))

\* the step hands an in-order data segment to the connection of e
InOrderData(e) ==
    /\ last'.kind = "datagram" /\ last'.e = e /\ last'.error = ""
    /\ Handles(e, last'.packet) /\ ~ep[e].paused
    /\ last'.packet.dlen > 0
    /\ relativeSeq(last'.packet) = ep[e].nextRecvSeqNum
    /\ segmentAcceptable(ep[e].nextRecvSeqNum, ep[e].recvWindow,
                         relativeSeq(last'.packet), segmentLength(last'.packet))

\* what the application of e has been given once it is handed the payload
\* of the packet: the bytes it had, then the payload
Given(e, packet) ==
    IF ep[e].delivered = <<>> THEN <<packet.data>>
    ELSE IF packet.data.lo = Bytes(ep[e].delivered) + 1
         THEN <<[lo |-> 1, n |-> Bytes(ep[e].delivered) + packet.data.n]>>
    ELSE Append(ep[e].delivered, packet.data)

Delivers(e) ==
    InOrderData(e) =>
        /\ ep'[e].delivered = Given(e, last'.packet)
        /\ Bytes(ep'[e].delivered) = Bytes(ep[e].delivered) + last'.packet.dlen

\* self.protocol is None once the application has been told connectionLost
DeliversAttached(e) ==
    InOrderData(e) =>
        /\ ep'[e].nextRecvSeqNum = ep[e].nextRecvSeqNum + segmentLength(last'.packet)
        /\ ep'[e].delivered =
              IF ep[e].protocol THEN Given(e, last'.packet) ELSE ep[e].delivered
        /\ ep[e].state = "established" => ep[e].protocol
        /\ \A i \in 1..Len(SentBy(e)) :
              SentBy(e)[i].ack => SentBy(e)[i].ackNum = currentAckNum(ep[e])

\* the peer's FIN has been taken by a connection that had not closed first
FinAccepted(c) == c.state \in {"closeWait", "lastAck"}

AcksDelivered(e, states, counted) ==
    (/\ last'.e = e /\ last'.kind # "none" /\ ~InOrderData(e)
     /\ ep[e].delivered # <<>> /\ ep'[e].state \in states) =>
        \A i \in 1..Len(SentBy(e)) :
            SentBy(e)[i].ack =>
                SentBy(e)[i].ackNum =
                    (ep[e].peerSendISN + 1 + Bytes(ep'[e].delivered)
                        + Bit(counted /\ FinAccepted(ep'[e]))) % SeqSpace

RECURSIVE Payloads(_)
Payloads(queue) ==
    IF queue = <<>> THEN <<>>
    ELSE [i \in 1..Head(queue).data.n |-> Head(queue).data.lo + i - 1]
         \o Payloads(Tail(queue))

\* the relative sequence numbers the segments of a queue occupy, in queue order
RECURSIVE Occupied(_)
Occupied(queue) ==
    IF queue = <<>> THEN <<>>
    ELSE [i \in 1..segmentLength(Head(queue)) |-> relativeSeq(Head(queue)) + i - 1]
         \o Occupied(Tail(queue))

\* the step is the connection of e processing an STB packet with a 2-byte
\* payload to its end
StbProcessed(e) ==
    /\ last'.kind = "datagram" /\ last'.e = e /\ last'.packet.stb
    /\ Known(ep[e], last'.packet) /\ verifyChecksum(last'.packet) = "ok"
    /\ last'.packet.data.n = StbPayloadLen
    /\ last'.error = "" /\ ~ep'[e].hung

StbStep(e) ==
    LET m == last'.packet.u16
        before == ep[e].retransmissionQueue
        after == ep'[e].retransmissionQueue
    IN StbProcessed(e) =>
         /\ ep'[e].mtu = m
         /\ \A i \in 1..Len(after) : after[i].dlen <= m /\ after[i].data.n = after[i].dlen
         /\ Payloads(after) = Payloads(before)
         /\ Occupied(after) = Occupied(before)
         /\ \A i \in 1..Len(after) : after[i].fin => i = Len(after)
         /\ ep'[e] = [ep[e] EXCEPT !.mtu = m, !.retransmissionQueue = after]
         /\ net'[Peer(e)] = net[Peer(e)]

\* the data packets e sends in a step are no longer than its MTU
DataWithinMtu(e) ==
    (last'.e = e /\ last'.kind # "none") =>
        \A i \in 1..Len(SentBy(e)) :
            ~SentBy(e)[i].stb => SentBy(e)[i].dlen <= ep[e].mtu

LargeWriteStep(mtu, segments) ==
    /\ ep'["A"].state = "established" => ep'["A"].mtu = mtu
    /\ (last'.e = "A" /\ last'.kind # "none") =>
          \A i \in 1..Len(SentBy("A")) :
              SentBy("A")[i].dlen > 0 =>
                  /\ <<relativeSeq(SentBy("A")[i]), SentBy("A")[i].dlen>> \in segments
                  /\ SentBy("A")[i].data.lo = relativeSeq(SentBy("A")[i])
                  /\ SentBy("A")[i].ack
                  /\ ~SentBy("A")[i].syn /\ ~SentBy("A")[i].fin
    /\ ep'["B"].delivered # <<>> =>
          /\ Len(ep'["B"].delivered) = 1 /\ ep'["B"].delivered[1].lo = 1
          /\ ep'["B"].delivered[1].n <= 1000
          /\ ep'["B"].nextRecvSeqNum = 1 + ep'["B"].delivered[1].n

\* C21 as stated: a fresh connection has MTU 493 and one write of 1000
\* bytes goes out as data segments of 493, 493 and 14 bytes, in that order,
\* ACK set, SYN and FIN clear; the receiver is given the 1000 bytes in order,
\* each once, and its nextRecvSeqNum advances by 1000.
C21_Segments493 ==
    [][LargeWriteStep(493, {<<1, 493>>, <<494, 493>>, <<987, 14>>})]_vars

\* C21 amended: the header is 23 bytes, a fresh connection has MTU 489 and
\* the write of 1000 bytes goes out as data segments of 489, 489, 1 and 21
\* bytes, in that order (the send window is 979 once the SYN is
\* acknowledged), ACK set, SYN and FIN clear; the receiver is given the 1000
\* bytes in order, each once, and its nextRecvSeqNum advances by 1000.
C21_Segments489 ==
    [][LargeWriteStep(489, {<<1, 489>>, <<490, 489>>, <<979, 1>>, <<980, 21>>})]_vars

C21_Witness ==
    /\ ep["B"].delivered = <<[lo |-> 1, n |-> 1000]>>
    /\ ep["B"].nextRecvSeqNum = 1001
    /\ ep["A"].oldestUnackedSendSeqNum = 1001
    /\ ep["A"].retransmissionQueue = <<>>

\* e runs the output sendFin in the step
SendsFin(e) ==
    /\ last'.e = e /\ last'.kind # "none"
    /\ \E i \in 1..Len(last'.ran) : last'.ran[i] = "sendFin"

LoseStep(e) ==
    /\ SendsFin(e) =>
          /\ ep[e].outgoingBytes.n = 0
          /\ ep[e].nextSendSeqNum = Written(e) + 1
          /\ \E i \in 1..Len(SentBy(e)) :
                SentBy(e)[i].fin /\ relativeSeq(SentBy(e)[i]) = Written(e) + 1
    /\ (last'.e = e /\ last'.kind = "loseConnection" /\ ep[e].outgoingBytes.n > 0) =>
          /\ ep'[e] = [ep[e] EXCEPT !.disconnecting = TRUE]
          /\ net'[Peer(e)] = net[Peer(e)]
    /\ (last'.e = e /\ last'.kind = "loseConnectionAgain") =>
          /\ ep'[e] = ep[e]
          /\ net'[Peer(e)] = net[Peer(e)]

\* C22: a loseConnection called while bytes are waiting to be sent only sets
\* disconnecting; whenever the machine is fed appClose and sends FIN the
\* outgoing buffer is empty, every byte written so far has been originated
\* in a data segment and the FIN takes the sequence number after the last of
\* them; a second loseConnection changes nothing and sends nothing.
C22_CloseAfterOutput == [][\A e \in Endpoints : LoseStep(e)]_vars

C22_Witness ==
    /\ last.kind = "datagram" /\ last.e = "A" /\ last.from = "established"
    /\ ep["A"].state = "finWait1" /\ ep["A"].disconnecting
    /\ Written("A") = 2 * DatagramSize
    /\ net["B"] # <<>> /\ Newest("B").fin
    /\ relativeSeq(Newest("B")) = 2 * DatagramSize + 1

\* the calls e's handler made on its producer in the step
Told(e) == IF last'.e = e /\ last'.kind # "none" THEN last'.told ELSE <<>>

ToldTo(e, call) == \E i \in 1..Len(Told(e)) : Told(e)[i] = call

\* e has a streaming producer before and after the step
Streaming(e) ==
    /\ ep[e].producer /\ ep[e].streamingProducer
    /\ ep'[e].producer /\ ep'[e].streamingProducer

\* the send window of e reaches 0 in the step: the producer is paused
PausedAtZero(e) ==
    (/\ Streaming(e) /\ ~ep[e].producerPaused
     /\ ep[e].sendWindowRemaining > 0 /\ ep'[e].sendWindowRemaining = 0)
        => ToldTo(e, "pauseProducing")

\* the calls of the step alternate, the first is the opposite of the last one
\* made before it, and the first ever made is a pause
RECURSIVE Alternates(_, _)
Alternates(calls, wasPaused) ==
    IF calls = <<>> THEN TRUE
    ELSE /\ Head(calls) = (IF wasPaused THEN "resumeProducing" ELSE "pauseProducing")
         /\ Alternates(Tail(calls), ~wasPaused)

PauseResumeAlternate(e) ==
    Streaming(e) =>
        /\ Alternates(Told(e), ep[e].producerPaused)
        /\ ep'[e].producerPaused = (ep[e].producerPaused = (Len(Told(e)) % 2 = 0))

\* an acceptable ACK makes the send window of the paused producer's
\* connection positive again
WindowFreed(e) ==
    /\ Streaming(e) /\ ep[e].producerPaused
    /\ last'.e = e /\ last'.kind = "datagram"
    /\ ep[e].sendWindowRemaining = 0 /\ ep'[e].sendWindowRemaining > 0

\* an acceptable ACK leaves nothing to retransmit and nothing to send
BufferEmptied(e) ==
    /\ Streaming(e) /\ ep[e].producerPaused
    /\ last'.e = e /\ last'.kind = "datagram"
    /\ ep[e].retransmissionQueue # <<>> /\ ep'[e].retransmissionQueue = <<>>
    /\ ep'[e].outgoingBytes.n = 0

WrapStep(e) ==
    LET c == ep[e]
        d == ep'[e]
        packet == last'.packet
    IN (last'.kind = "datagram" /\ last'.e = e /\ Handles(e, packet)
        /\ c.state = "established") =>
          /\ (/\ packet.ack /\ c.retransmissionQueue # <<>>
              /\ packet.ackNum = c.nextSendSeqNum % SeqSpace) =>
                 /\ c.oldestUnackedSendSeqNum < c.nextSendSeqNum
                 /\ d.oldestUnackedSendSeqNum = c.nextSendSeqNum
                 /\ \A i \in 1..Len(d.retransmissionQueue) :
                       relativeSeq(d.retransmissionQueue[i]) >= c.nextSendSeqNum
          /\ (/\ packet.dlen > 0 /\ ~packet.syn
              /\ packet.seqNum = c.nextRecvSeqNum % SeqSpace) =>
                 /\ d.nextRecvSeqNum = c.nextRecvSeqNum + packet.dlen
                 /\ d.delivered # c.delivered

\* C24: also once the sequence numbers on the wire have wrapped, an ACK
\* that covers the outstanding data is accepted and empties the
\* retransmission queue of it, and the data segment the receiver expects
\* next is accepted and delivered.
C24_WrapCompare == [][\A e \in Endpoints : WrapStep(e)]_vars

\* the machine of c has taken the peer's FIN
FinProcessed(c) == c.state \in {"closeWait", "lastAck", "closing", "timeWait"}

\* C25: once the peer's SYN has been taken, nextRecvSeqNum is 1 for the SYN
\* plus the bytes given to the application plus 1 for a FIN that has been
\* processed; a segment that starts before nextRecvSeqNum and ends after it
\* advances it by its new part only.
C25_RecvSeqCountsConsumed ==
    \A e \in Endpoints :
        (ep[e].setPeerISN /\ ep[e].state # "closed") =>
            ep[e].nextRecvSeqNum
                = 1 + Bytes(ep[e].delivered) + Bit(FinProcessed(ep[e]))

\* the states in which a connection waits for the acknowledgement of its
\* FIN, and where the ack input takes it from each
AfterFinAcked ==
    [finWait1 |-> "finWait2", closing |-> "timeWait", lastAck |-> "closed"]

FinAckedStep(e) ==
    (/\ last'.kind = "datagram" /\ last'.e = e
     /\ ep[e].state \in DOMAIN AfterFinAcked
     /\ ep'[e].state = AfterFinAcked[ep[e].state]) =>
        /\ ep'[e].retransmissionQueue = <<>>
        /\ ep'[e].oldestUnackedSendSeqNum = ep'[e].nextSendSeqNum

\* C26: a connection goes from FinWait1 to FinWait2, from Closing to
\* TimeWait or from LastAck to Closed on a datagram only when the datagram
\* acknowledges its FIN: after the step the retransmission queue is empty
\* and oldestUnackedSendSeqNum = nextSendSeqNum.
C26_FinAckedBeforeLeaving == [][\A e \in Endpoints : FinAckedStep(e)]_vars

\* C27: taking a connection out of the map never fails because its entry is
\* already gone: no handler ends with the KeyError of a del on a missing
\* key, whether the connection releases its resources or is destroyed
\* after an exception.
C27_RemovalNeverFails == last.error # "KeyError"

\* C28: a connection that is not in its multiplexer's map has none of its
\* timers armed, so that none fires after it has been removed.
C28_RemovedHasNoTimer ==
    \A e \in Endpoints : (ep[e].created /\ ~ep[e].inMap) => ~Armed(ep[e])

\* the payload bytes of the segments waiting in a retransmission queue
RECURSIVE QueuedBytes(_)
QueuedBytes(queue) ==
    IF queue = <<>> THEN 0 ELSE Head(queue).dlen + QueuedBytes(Tail(queue))

\* C29: the send window is conserved: sendWindowRemaining plus the payload
\* bytes waiting in the retransmission queue is twice the initial MTU in
\* every state of a connection.
C29_WindowConserved ==
    \A e \in Endpoints :
        ep[e].created =>
            ep[e].sendWindowRemaining + QueuedBytes(ep[e].retransmissionQueue)
                = 2 * (DatagramSize - FixedSize)

\* loseConnection has just been called on the Established connection of A,
\* whose outgoing buffer was empty
CloseCalled ==
    /\ last.kind = "loseConnection" /\ last.e = "A" /\ last.from = "established"
    /\ ep["A"].state = "finWait1"

\* the connection of A is Closed, has run releaseResources and is out of
\* the map
CloseDone ==
    ep["A"].state = "closed" /\ ep["A"].released /\ ~ep["A"].inMap

\* C30: once loseConnection has been called on an Established connection
\* with an empty outgoing buffer, and its timers fire fairly, the connection
\* is eventually Closed, has run releaseResources and is out of the map,
\* whatever the peer and the network do.
C30_CloseCompletes == CloseCalled ~> CloseDone

\* the connection of e is handed an STB packet with a 2-byte payload
StbHanded(e) ==
    /\ last'.kind = "datagram" /\ last'.e = e /\ last'.packet.stb
    /\ Known(ep[e], last'.packet) /\ verifyChecksum(last'.packet) = "ok"
    /\ last'.packet.data.n = StbPayloadLen

\* C31: processing an STB advisory comes to an end, raises no error and
\* leaves the connection in the map, whatever value the 2-byte payload
\* carries, 0 included, and whatever waits in the retransmission queue.
C31_StbTerminates ==
    [][\A e \in Endpoints :
          StbHanded(e) =>
              ~ep'[e].hung /\ last'.error = "" /\ ep'[e].inMap]_vars

\* the sequence number after the last one a segment occupies
EndOf(p) == relativeSeq(p) + segmentLength(p)

QueueCoversUnacked(c) ==
    LET rq == c.retransmissionQueue IN
    /\ rq = <<>> <=> c.oldestUnackedSendSeqNum = c.nextSendSeqNum
    /\ \A i \in 1..Len(rq) :
          /\ segmentLength(rq[i]) > 0
          /\ i < Len(rq) => EndOf(rq[i]) = relativeSeq(rq[i + 1])
    /\ rq # <<>> =>
          /\ relativeSeq(rq[1]) <= c.oldestUnackedSendSeqNum
          /\ c.oldestUnackedSendSeqNum < EndOf(rq[1])
          /\ EndOf(rq[Len(rq)]) = c.nextSendSeqNum

\* C32: in every state the retransmission queue is empty exactly when
\* oldestUnackedSendSeqNum = nextSendSeqNum; when it is not empty its
\* segments follow each other without gap or overlap, the first starts at or
\* before oldestUnackedSendSeqNum and ends after it, the last ends at
\* nextSendSeqNum, and none has segment length 0.
C32_QueueCoversUnacked == \A e \in Endpoints : QueueCoversUnacked(ep[e])

====
